---- MODULE Spec2Model ----
(***************************************************************************)
(* Bar-by-bar backtest engine of volarix4_backtest: the broker simulator   *)
(* (broker_sim.py), the engine loop (engine.py), the signal API client     *)
(* (api_client.py) and the grid-search / walk-forward orchestration.       *)
(*                                                                         *)
(* Units.  Prices are integers in pips (pip_value = 1 price unit).         *)
(* Volumes (lot_size, remaining_lots, closed_lots, the lots of a leg) are  *)
(* Python floats: binary floating-point numbers, here with MantissaBits    *)
(* significant bits instead of 53, written as an integer count of the      *)
(* smallest volume step; every product, sum and difference of volumes is   *)
(* rounded to the nearest such number, ties to even.  A tp percent is a    *)
(* float too, written as a count of 1/PercentUnit.  Money is kept exact,   *)
(* in USD per volume step.                                                 *)
(* Optional[T] is a sequence: << >> is None and <<x>> is the value x.      *)
(* Python indices are 0-based: Bar(k) is self.bars[k].                     *)
(***************************************************************************)
EXTENDS Integers, Sequences, FiniteSets, TLC

MaxPrice == 4
NBars == 4
MaxRetries == 3
MaxSlippage == 1
MaxCommission == 1
MaxUpdates == 3
MantissaBits == 4

PercentUnit == 16
InitialBalance == 10000
WarmupBars == 1
LookbackBars == 1
RetryDelay == 1

None == << >>
Some(x) == <<x>>
IsNone(o) == o = << >>
IsSome(o) == o # << >>
Val(o) == o[1]

Min(a, b) == IF a <= b THEN a ELSE b
Max(a, b) == IF a >= b THEN a ELSE b

Prices == 0..MaxPrice

(***************************************************************************)
(* Python float arithmetic on volumes                                      *)
(***************************************************************************)

\* The spacing of the floats around num/den: the smallest power of two u
\* with num/den < u * 2^MantissaBits.
RECURSIVE FloatUlp(_, _, _)
FloatUlp(num, den, u) ==
    IF num < den * u * (2 ^ MantissaBits) THEN u ELSE FloatUlp(num, den, 2 * u)

\* n * u + rest / (step / u), with rest < step, rounded to a multiple of u:
\* up when the rest is more than half a step, or half a step and n is odd.
FloatNearest(n, rest, step, u) ==
    IF 2 * rest > step \/ (2 * rest = step /\ n % 2 = 1) THEN (n + 1) * u ELSE n * u

\* num/den >= 0 rounded to the nearest multiple of the spacing u.
FloatRoundAt(num, den, u) ==
    FloatNearest(num \div (den * u), num % (den * u), den * u, u)

\* The float nearest to num/den >= 0, ties to the even mantissa.
FloatRound(num, den) == FloatRoundAt(num, den, FloatUlp(num, den, 1))

\* lot_size * tpN_percent
FloatMulPercent(lots, percent) == FloatRound(lots * percent, PercentUnit)

\* a + b and a - b on volumes
FloatAdd(a, b) == FloatRound(a + b, 1)
FloatSub(a, b) == FloatRound(a - b, 1)

\* The lot sizes of a run: floats whose products with a tp percent keep all
\* their significant bits above the smallest volume step.
LotSizes ==
    {(2 ^ (MantissaBits - 1) + j) * (PercentUnit \div 2) : j \in {0, 3, 5}}

(***************************************************************************)
(* broker_sim.py                                                           *)
(***************************************************************************)

\* BrokerSimulator.__init__: the cost parameters of one simulator.
BrokerConfigs ==
    [slippage_pips : {0, MaxSlippage},
     spread_pips : {2},
     commission_per_side_per_lot : {0, MaxCommission},
     usd_per_pip_per_lot : {1}]

\* The simulator of an engine run: the largest costs.
RunBroker ==
    [slippage_pips |-> MaxSlippage, spread_pips |-> 2,
     commission_per_side_per_lot |-> MaxCommission, usd_per_pip_per_lot |-> 1]

\* Trade.is_closed
is_closed(t) == t.remaining_lots <= 0

\* One exit leg as _partial_close / _close_trade account for it.  The legs
\* field is a history of the legs applied to the trade; the code keeps only
\* their running totals.
Leg(reason, time, lots, gross, net) ==
    [reason |-> reason, time |-> time, lots |-> lots, gross |-> gross, net |-> net]

\* BrokerSimulator.open_trade
open_trade_op(b, direction, entry_time, entry_price, lot_size, sig) ==
    LET entry_cost_pips == b.spread_pips + b.slippage_pips
        entry_cost_usd == entry_cost_pips * lot_size * b.usd_per_pip_per_lot
        commission_entry == b.commission_per_side_per_lot * lot_size
        actual_entry == IF direction = "BUY"
                        THEN entry_price + b.slippage_pips
                        ELSE entry_price - b.slippage_pips
    IN [direction |-> direction,
        entry_time |-> entry_time,
        entry_price |-> actual_entry,
        lot_size |-> lot_size,
        sl |-> sig.sl, tp1 |-> sig.tp1, tp2 |-> sig.tp2, tp3 |-> sig.tp3,
        tp1_percent |-> sig.tp1_percent,
        tp2_percent |-> sig.tp2_percent,
        tp3_percent |-> sig.tp3_percent,
        entry_cost_usd |-> entry_cost_usd,
        exit_cost_usd |-> 0,
        commission_usd |-> commission_entry,
        remaining_lots |-> lot_size,
        closed_lots |-> 0,
        exit_time |-> None,
        exit_reason |-> "None",
        exit_price |-> None,
        tp1_hit |-> FALSE, tp2_hit |-> FALSE, tp3_hit |-> FALSE,
        tp1_exit_time |-> None, tp2_exit_time |-> None, tp3_exit_time |-> None,
        gross_pnl_usd |-> 0,
        net_pnl_usd |-> 0,
        legs |-> << >>]

\* The slippage-adjusted exit price of both close functions.
actual_exit_price(b, t, exit_price) ==
    IF t.direction = "BUY" THEN exit_price - b.slippage_pips
                           ELSE exit_price + b.slippage_pips

\* The signed pip distance of both close functions.
pips_of(t, actual_exit) ==
    IF t.direction = "BUY" THEN actual_exit - t.entry_price
                           ELSE t.entry_price - actual_exit

\* The TP-hit flag and exit time _partial_close sets before anything else.
mark_tp_hit(t, exit_time, exit_reason) ==
    IF exit_reason = "TP1"
    THEN [t EXCEPT !.tp1_hit = TRUE, !.tp1_exit_time = Some(exit_time)]
    ELSE IF exit_reason = "TP2"
    THEN [t EXCEPT !.tp2_hit = TRUE, !.tp2_exit_time = Some(exit_time)]
    ELSE [t EXCEPT !.tp3_hit = TRUE, !.tp3_exit_time = Some(exit_time)]

\* The portion _partial_close closes at a TP level, before the cap.
tp_lots(t, exit_reason) ==
    IF exit_reason = "TP1" THEN FloatMulPercent(t.lot_size, t.tp1_percent)
    ELSE IF exit_reason = "TP2" THEN FloatMulPercent(t.lot_size, t.tp2_percent)
    ELSE FloatMulPercent(t.lot_size, t.tp3_percent)

\* BrokerSimulator._partial_close
partial_close(b, t, exit_time, exit_price, exit_reason) ==
    IF exit_reason \notin {"TP1", "TP2", "TP3"} THEN t
    ELSE
    LET t1 == mark_tp_hit(t, exit_time, exit_reason)
        lots_to_close == Min(tp_lots(t, exit_reason), t.remaining_lots)
        actual_exit == actual_exit_price(b, t, exit_price)
        pips == pips_of(t, actual_exit)
        gross_pnl == pips * lots_to_close * b.usd_per_pip_per_lot
        exit_cost_usd == b.slippage_pips * lots_to_close * b.usd_per_pip_per_lot
        commission_exit == b.commission_per_side_per_lot * lots_to_close
        net_pnl == gross_pnl - exit_cost_usd - commission_exit
        t2 == [t1 EXCEPT !.remaining_lots = FloatSub(@, lots_to_close),
                         !.closed_lots = FloatAdd(@, lots_to_close),
                         !.gross_pnl_usd = @ + gross_pnl,
                         !.exit_cost_usd = @ + exit_cost_usd,
                         !.commission_usd = @ + commission_exit,
                         !.net_pnl_usd = @ + net_pnl,
                         !.legs = Append(@, Leg(exit_reason, exit_time,
                                                lots_to_close, gross_pnl, net_pnl))]
    IN IF lots_to_close <= 0 THEN t1
       ELSE IF t2.remaining_lots <= 0
            THEN [t2 EXCEPT !.exit_time = Some(exit_time),
                            !.exit_reason = exit_reason,
                            !.exit_price = Some(actual_exit),
                            !.remaining_lots = 0]
            ELSE t2

\* BrokerSimulator._close_trade
close_trade(b, t, exit_time, exit_price, exit_reason) ==
    IF t.remaining_lots <= 0 THEN t
    ELSE
    LET actual_exit == actual_exit_price(b, t, exit_price)
        pips == pips_of(t, actual_exit)
        gross_pnl == pips * t.remaining_lots * b.usd_per_pip_per_lot
        exit_cost_usd == b.slippage_pips * t.remaining_lots * b.usd_per_pip_per_lot
        commission_exit == b.commission_per_side_per_lot * t.remaining_lots
        net_pnl == gross_pnl - exit_cost_usd - commission_exit
    IN [t EXCEPT !.closed_lots = FloatAdd(@, t.remaining_lots),
                 !.remaining_lots = 0,
                 !.gross_pnl_usd = @ + gross_pnl,
                 !.exit_cost_usd = @ + exit_cost_usd,
                 !.commission_usd = @ + commission_exit,
                 !.net_pnl_usd = @ + net_pnl,
                 !.exit_time = Some(exit_time),
                 !.exit_reason = exit_reason,
                 !.exit_price = Some(actual_exit),
                 !.legs = Append(@, Leg(exit_reason, exit_time,
                                        t.remaining_lots, gross_pnl, net_pnl))]

\* The stop-loss condition of update_trade.
sl_condition(t, high, low) ==
    IF t.direction = "BUY" THEN low <= t.sl ELSE high >= t.sl

\* The take-profit condition of update_trade for one level.
tp_condition(t, level, high, low) ==
    IF t.direction = "BUY" THEN high >= level ELSE low <= level

\* The trade after the first n of the three TP checks of update_trade,
\* furthest level first.
tp_checks(b, t, time, high, low, n) ==
    LET a == IF ~t.tp3_hit /\ tp_condition(t, t.tp3, high, low)
             THEN partial_close(b, t, time, t.tp3, "TP3") ELSE t
        c == IF ~a.tp2_hit /\ tp_condition(a, a.tp2, high, low)
             THEN partial_close(b, a, time, a.tp2, "TP2") ELSE a
        d == IF ~c.tp1_hit /\ tp_condition(c, c.tp1, high, low)
             THEN partial_close(b, c, time, c.tp1, "TP1") ELSE c
    IN IF n = 0 THEN t ELSE IF n = 1 THEN a ELSE IF n = 2 THEN c ELSE d

\* The three TP checks of update_trade.
check_tps(b, t, time, high, low) == tp_checks(b, t, time, high, low, 3)

\* update_trade with the take-profit checks made before the stop-loss check.
update_trade_tp_first(b, t, time, high, low) ==
    IF is_closed(t) THEN t
    ELSE LET d == check_tps(b, t, time, high, low)
         IN IF sl_condition(t, high, low)
            THEN close_trade(b, d, time, t.sl, "SL")
            ELSE d

\* BrokerSimulator.update_trade: the trade after the bar.
update_trade(b, t, time, high, low) ==
    IF is_closed(t) THEN t
    ELSE IF sl_condition(t, high, low)
         THEN close_trade(b, t, time, t.sl, "SL")
         ELSE check_tps(b, t, time, high, low)

(***************************************************************************)
(* State                                                                   *)
(***************************************************************************)
VARIABLES
    cfg,            \* BacktestConfig of the run
    broker,         \* BrokerSimulator of the run (its cost parameters)
    source,         \* what data_source.load() returns
    bars,           \* BacktestEngine.bars
    pc,             \* position of run(): init, update, signal, request, record, final, done, failed
    i,              \* loop index of run()
    open_trade,     \* BacktestEngine.open_trade
    trades,         \* BacktestEngine.trades
    balance,        \* BacktestEngine.balance
    equity_curve,   \* BacktestEngine.equity_curve
    attempt,        \* loop variable of SignalApiClient._request
    delays,         \* the time.sleep() calls of the current _request
    last_request,   \* the last payload posted to /signal and the bar index it was built at
    last_op,        \* the arguments of the last update_trade / _close_trade call
    error,          \* the exception that ended run(), "None" while there is none
    history,        \* the bars an orchestrator works on (df_full / all_bars)
    wf_params,      \* the arguments / configuration of the orchestrator call
    split_idx,      \* loop position of run_walk_forward / WalkForwardEngine.run
    split_results,  \* run_walk_forward's split_results
    results_by_year,    \* WalkForwardEngine.run's results_by_year, in insertion order
    aggregate_results,  \* WalkForwardEngine.run's aggregate_results
    signal_cooldown_tracker,  \* _signal_cooldown_tracker[symbol] of the API process
    last_signal_time,   \* run_backtest's last_signal_time
    broker_state,       \* BacktestBroker.state (the BrokerState of the event-driven run)
    ea_state,           \* Volarix4EA.state (the EAState of the event-driven run)
    last_bar_index,     \* BacktestEngine.run's last_bar_index (event-driven engine)
    responses,          \* the answers of the /signal endpoint, by the bar they are asked at
    completed_runs,     \* the results run() has returned, one per BacktestEngine built
    results,            \* the dictionary the last _compute_results call returned
    pnl_list,           \* monte_carlo_reshuffle's pnl_list
    max_drawdowns,      \* monte_carlo_reshuffle's max_drawdowns
    final_pnls,         \* monte_carlo_reshuffle's final_pnls
    mc_results,         \* the dictionary monte_carlo_reshuffle returned
    n_jobs,             \* GridSearchConfig.n_jobs
    worker_results,     \* what the evaluation of each combination returns
    futures,            \* the combinations whose result is not collected yet
    results_list,       \* the results list of _run_sequential and _run_parallel
    best_result         \* best_result of GridSearchEngine.run

\* The state of the orchestrators.
orchVars == <<history, wf_params, split_idx, split_results, results_by_year,
              aggregate_results, signal_cooldown_tracker>>

\* The state of the legacy bar loop's cooldown and of the event-driven engine.
eventVars == <<last_signal_time, broker_state, ea_state, last_bar_index>>

\* The fixed answers of the oracle and the results of the runs made so far.
rerunVars == <<responses, completed_runs>>

\* The state of monte_carlo_reshuffle.
mcVars == <<pnl_list, max_drawdowns, final_pnls, mc_results>>

\* The state of GridSearchEngine.run.
gridVars == <<n_jobs, worker_results, futures, results_list, best_result>>

vars == <<cfg, broker, source, bars, pc, i, open_trade, trades, balance,
          equity_curve, attempt, delays, last_request, last_op, error, orchVars,
          eventVars, rerunVars, results, mcVars, gridVars>>

\* The orchestrator state of a run made without an orchestrator.
NoOrchestrator ==
    /\ history = << >>
    /\ wf_params = << >>
    /\ split_idx = 0
    /\ split_results = << >>
    /\ results_by_year = << >>
    /\ aggregate_results = << >>
    /\ signal_cooldown_tracker = << >>

\* A run whose oracle is free to answer anything and that is made once.
NoRerun ==
    /\ responses = << >>
    /\ completed_runs = << >>

\* A run that is not followed by the Monte-Carlo reshuffle.
NoMonteCarlo ==
    /\ pnl_list = << >>
    /\ max_drawdowns = << >>
    /\ final_pnls = << >>
    /\ mc_results = << >>

\* The grid-search state of a run made without GridSearchEngine.
NoGridSearch ==
    /\ n_jobs = 1
    /\ worker_results = << >>
    /\ futures = {}
    /\ results_list = << >>
    /\ best_result = << >>

\* The event-driven state of a run made without the event-driven engine.
NoEventEngine ==
    /\ last_signal_time = << >>
    /\ broker_state = << >>
    /\ ea_state = << >>
    /\ last_bar_index = -1

(***************************************************************************)
(* data_source.py, config.py                                               *)
(***************************************************************************)

\* Bar: OHLC of one candle; time is its timestamp.
MkBar(time, low, high) ==
    [time |-> time, open |-> low, high |-> high, low |-> low, close |-> high]

\* SignalResponse: the answers the endpoint can give.  The tp percents are
\* the endpoint's split into a half and two unequal parts, as floats whose
\* exact sum is 1.
HoldSignal ==
    [signal |-> "HOLD", entry |-> 0, sl |-> 0, tp1 |-> 0, tp2 |-> 0, tp3 |-> 0,
     tp1_percent |-> 8, tp2_percent |-> 5, tp3_percent |-> 3]

BuySignal ==
    [signal |-> "BUY", entry |-> 1, sl |-> 0, tp1 |-> 2, tp2 |-> 3, tp3 |-> 4,
     tp1_percent |-> 8, tp2_percent |-> 5, tp3_percent |-> 3]

SellSignal ==
    [signal |-> "SELL", entry |-> 3, sl |-> 4, tp1 |-> 2, tp2 |-> 1, tp3 |-> 0,
     tp1_percent |-> 8, tp2_percent |-> 5, tp3_percent |-> 3]

\* A response the endpoint's schema admits although its levels are out of
\* order: a BUY whose stop lies above its entry and its first target.
MisorderedSignal ==
    [signal |-> "BUY", entry |-> 1, sl |-> 3, tp1 |-> 2, tp2 |-> 3, tp3 |-> 4,
     tp1_percent |-> 8, tp2_percent |-> 5, tp3_percent |-> 3]

Signals == {HoldSignal, BuySignal, SellSignal, MisorderedSignal}

\* The candles a series is built from: a flat candle at each level of the
\* signals and one between stop and first target.
BarShapes ==
    {<<p, p>> : p \in {BuySignal.sl, BuySignal.sl + 1, BuySignal.tp1,
                       BuySignal.tp2, BuySignal.tp3}}

\* The series data_source.load() can return: n candles, timestamps strictly
\* increasing (bar k has time k + 1).
SeriesOfLen(n) ==
    LET shapes == [1..n -> BarShapes]
    IN {[k \in 1..n |-> MkBar(k, f[k][1], f[k][2])] : f \in shapes}

Series == UNION {SeriesOfLen(n) : n \in 0..NBars}

\* self.bars[k]
Bar(k) == bars[k + 1]

\* The lot size of an engine run: the largest of LotSizes.
RunLotSize == CHOOSE x \in LotSizes : \A y \in LotSizes : y <= x

\* BacktestConfig: the fields the engine reads.
Configs ==
    [fill_at : {"next_open", "signal_close"},
     use_optimized_mode : BOOLEAN,
     api_max_retries : {0, 1, MaxRetries},
     api_retry_delay : {RetryDelay},
     warmup_bars : {WarmupBars},
     lookback_bars : {LookbackBars},
     lot_size : LotSizes,
     initial_balance_usd : {InitialBalance}]

(***************************************************************************)
(* api_client.py and the /signal endpoint                                  *)
(***************************************************************************)

\* bars[a:b] of Python, 0-based and end-exclusive.
Slice(s, a, b) ==
    IF b <= a THEN << >> ELSE SubSeq(s, a + 1, Min(b, Len(s)))

\* _get_signal with the legacy window cut one bar later.
get_signal_payload_lookahead(c, bs, bar_index) ==
    LET start_idx == Max(0, bar_index - c.lookback_bars + 1)
    IN [mode |-> IF c.use_optimized_mode THEN "optimized" ELSE "legacy",
        bar_time |-> IF c.use_optimized_mode
                     THEN Some(bs[Min(bar_index + 2, Len(bs))].time) ELSE None,
        lookback_bars |-> c.lookback_bars,
        data |-> IF c.use_optimized_mode THEN << >>
                 ELSE Slice(bs, start_idx, bar_index + 2)]

\* BacktestEngine._get_signal: the payload built for bar_index.
get_signal_payload(c, bs, bar_index) ==
    IF c.use_optimized_mode
    THEN [mode |-> "optimized",
          bar_time |-> Some(bs[bar_index + 1].time),
          lookback_bars |-> c.lookback_bars,
          data |-> << >>]
    ELSE LET start_idx == Max(0, bar_index - c.lookback_bars + 1)
         IN [mode |-> "legacy",
             bar_time |-> None,
             lookback_bars |-> c.lookback_bars,
             data |-> Slice(bs, start_idx, bar_index + 1)]

(***************************************************************************)
(* engine.py                                                               *)
(***************************************************************************)

\* _finalize_trade adding the result of the trade to the balance twice.
finalize_balance_twice(bal, t) == bal + 2 * t.net_pnl_usd

\* BacktestEngine._finalize_trade: the balance and trade list after it.
finalize_balance(bal, t) == bal + t.net_pnl_usd
finalize_trades(ts, t) == Append(ts, t)

\* BacktestEngine._record_equity: the point appended for a timestamp.
equity_point(time, bal, ot) ==
    LET unrealized_pnl == IF IsSome(ot) /\ ~is_closed(Val(ot))
                          THEN Val(ot).net_pnl_usd ELSE 0
    IN [time |-> time, balance |-> bal, unrealized_pnl |-> unrealized_pnl,
        equity |-> bal + unrealized_pnl]

\* _open_position filling every setup on the bar that gave the signal.
open_position_at_signal_bar(c, b, bs, ot, signal, bar_index) ==
    Some(open_trade_op(b, signal.signal, bs[bar_index + 1].time,
                       bs[bar_index + 1].close, c.lot_size, signal))

\* BacktestEngine._open_position: the value of self.open_trade after it.
open_position(c, b, bs, ot, signal, bar_index) ==
    IF c.fill_at = "next_open"
    THEN IF bar_index + 1 >= Len(bs) THEN ot
         ELSE Some(open_trade_op(b, signal.signal, bs[bar_index + 2].time,
                                 bs[bar_index + 2].open, c.lot_size, signal))
    ELSE Some(open_trade_op(b, signal.signal, bs[bar_index + 1].time,
                            bs[bar_index + 1].close, c.lot_size, signal))

\* profit_factor of _compute_results: 0.0 without trades (line 355), else
\* gross_profit / gross_loss if gross_loss > 0 else float('inf') (line 372).
engine_profit_factor(total_trades, gross_profit, gross_loss) ==
    IF total_trades = 0 THEN [kind |-> "finite", num |-> 0, den |-> 1]
    ELSE IF gross_loss > 0
         THEN [kind |-> "finite", num |-> gross_profit, den |-> gross_loss]
         ELSE [kind |-> "inf", num |-> 0, den |-> 1]

\* sum(t.net_pnl_usd for t in ts)
RECURSIVE sum_net_pnl_usd(_)
sum_net_pnl_usd(ts) ==
    IF ts = << >> THEN 0 ELSE ts[1].net_pnl_usd + sum_net_pnl_usd(Tail(ts))

\* _compute_results, lines 374-386: the largest fall of the equity below
\* its running peak, the peak starting at the initial balance.
RECURSIVE max_drawdown(_, _, _)
max_drawdown(curve, peak, max_dd) ==
    IF curve = << >> THEN max_dd
    ELSE LET new_peak == IF curve[1].equity > peak THEN curve[1].equity ELSE peak
             dd == new_peak - curve[1].equity
         IN max_drawdown(Tail(curve), new_peak, IF dd > max_dd THEN dd ELSE max_dd)

\* BacktestEngine._compute_results; without trades the drawdown is not
\* computed (line 356).
compute_results(c, ts, curve, bal) ==
    LET winning_trades == SelectSeq(ts, LAMBDA t : t.net_pnl_usd > 0)
        losing_trades == SelectSeq(ts, LAMBDA t : t.net_pnl_usd < 0)
        gross_profit == sum_net_pnl_usd(winning_trades)
        gross_loss == -sum_net_pnl_usd(losing_trades)
    IN [total_trades |-> Len(ts),
        winning_trades |-> Len(winning_trades),
        losing_trades |-> Len(losing_trades),
        net_profit_usd |-> gross_profit - gross_loss,
        gross_profit_usd |-> gross_profit,
        gross_loss_usd |-> gross_loss,
        profit_factor |-> engine_profit_factor(Len(ts), gross_profit, gross_loss),
        max_drawdown_usd |-> IF ts = << >> THEN 0
                             ELSE max_drawdown(curve, c.initial_balance_usd, 0),
        final_balance |-> bal]

Init ==
    /\ cfg \in {c \in Configs : c.lot_size = RunLotSize}
    /\ broker = RunBroker
    /\ source \in Series
    /\ bars = << >>
    /\ pc = "init"
    /\ i = 0
    /\ open_trade = None
    /\ trades = << >>
    /\ balance = cfg.initial_balance_usd
    /\ equity_curve = << >>
    /\ attempt = 0
    /\ delays = << >>
    /\ last_request = None
    /\ last_op = None
    /\ error = "None"
    /\ NoOrchestrator
    /\ NoEventEngine
    /\ NoRerun
    /\ NoMonteCarlo
    /\ NoGridSearch
    /\ results = None

\* run(), lines 85-102: load the bars, fail on an empty or too short series,
\* enter the loop.
LoadBars ==
    /\ pc = "init"
    /\ UNCHANGED <<orchVars, eventVars, rerunVars, mcVars, gridVars, results>>
    /\ bars' = source
    /\ IF Len(source) = 0
       THEN pc' = "failed" /\ error' = "IndexError" /\ i' = i
       ELSE IF Len(source) < cfg.warmup_bars
       THEN pc' = "failed" /\ error' = "ValueError" /\ i' = i
       ELSE /\ error' = error
            /\ i' = cfg.warmup_bars
            /\ pc' = IF cfg.warmup_bars < Len(source) THEN "update" ELSE "final"
    /\ UNCHANGED <<last_op, cfg, broker, source, open_trade, trades, balance,
                   equity_curve, attempt, delays, last_request>>

\* run(), lines 105-107, and _update_open_position.
UpdateOpenPosition ==
    /\ pc = "update"
    /\ UNCHANGED <<orchVars, eventVars, rerunVars, mcVars, gridVars, results>>
    /\ pc' = "signal"
    /\ IF IsSome(open_trade) /\ ~is_closed(Val(open_trade))
       THEN \E t \in {update_trade(broker, Val(open_trade), Bar(i).time,
                                    Bar(i).high, Bar(i).low)} :
               /\ last_op' = Some([op |-> "update", time |-> Bar(i).time,
                                   high |-> Bar(i).high, low |-> Bar(i).low])
               /\ IF is_closed(t)
                  THEN /\ balance' = finalize_balance(balance, t)
                       /\ trades' = finalize_trades(trades, t)
                       /\ open_trade' = None
                  ELSE /\ open_trade' = Some(t)
                       /\ UNCHANGED <<balance, trades>>
       ELSE UNCHANGED <<last_op, open_trade, balance, trades>>
    /\ UNCHANGED <<cfg, broker, source, bars, i, equity_curve, attempt, delays,
                   last_request, error>>

\* The signal request made whether or not a position is open.
RequestSignal_any ==
    /\ pc = "signal"
    /\ UNCHANGED <<orchVars, eventVars, rerunVars, mcVars, gridVars, results>>
    /\ last_request' = Some([index |-> i, payload |-> get_signal_payload(cfg, bars, i)])
    /\ attempt' = 0
    /\ delays' = << >>
    /\ pc' = "request"
    /\ UNCHANGED <<last_op, cfg, broker, source, bars, i, open_trade, trades, balance,
                   equity_curve, error>>

\* run(), lines 109-111, _get_signal and the head of _request: with no open
\* position the payload for bar i is built and the retry loop starts.
RequestSignal ==
    /\ pc = "signal"
    /\ UNCHANGED <<orchVars, eventVars, rerunVars, mcVars, gridVars, results>>
    /\ IsNone(open_trade)
    /\ last_request' = Some([index |-> i, payload |-> get_signal_payload(cfg, bars, i)])
    /\ attempt' = 0
    /\ delays' = << >>
    /\ pc' = "request"
    /\ UNCHANGED <<last_op, cfg, broker, source, bars, i, open_trade, trades, balance,
                   equity_curve, error>>

\* run(), line 110: a position is open, no signal is requested.
SkipSignal ==
    /\ pc = "signal"
    /\ UNCHANGED <<orchVars, eventVars, rerunVars, mcVars, gridVars, results>>
    /\ IsSome(open_trade)
    /\ pc' = "record"
    /\ UNCHANGED <<last_op, cfg, broker, source, bars, i, open_trade, trades, balance,
                   equity_curve, attempt, delays, last_request, error>>

\* _request, lines 239-258, then run(), lines 112-121: the attempt succeeds,
\* the response is returned and a BUY or SELL opens a position.
AttemptSucceeds ==
    /\ pc = "request"
    /\ UNCHANGED <<orchVars, eventVars, rerunVars, mcVars, gridVars, results>>
    /\ attempt < cfg.api_max_retries
    /\ \E signal \in Signals :
          open_trade' = IF signal.signal \in {"BUY", "SELL"}
                        THEN open_position(cfg, broker, bars, open_trade, signal, i)
                        ELSE open_trade
    /\ pc' = "record"
    /\ UNCHANGED <<last_op, cfg, broker, source, bars, i, trades, balance, equity_curve,
                   attempt, delays, last_request, error>>

\* _request retrying after the same sleep every time.
AttemptFailsRetry_constant_delay ==
    /\ pc = "request"
    /\ UNCHANGED <<orchVars, eventVars, rerunVars, mcVars, gridVars, results>>
    /\ attempt < cfg.api_max_retries
    /\ attempt < cfg.api_max_retries - 1
    /\ delays' = Append(delays, cfg.api_retry_delay)
    /\ attempt' = attempt + 1
    /\ UNCHANGED <<last_op, cfg, broker, source, bars, pc, i, open_trade, trades, balance,
                   equity_curve, last_request, error>>

\* _request, lines 260-268: the attempt fails and is retried after a sleep.
AttemptFailsRetry ==
    /\ pc = "request"
    /\ UNCHANGED <<orchVars, eventVars, rerunVars, mcVars, gridVars, results>>
    /\ attempt < cfg.api_max_retries
    /\ attempt < cfg.api_max_retries - 1
    /\ delays' = Append(delays, cfg.api_retry_delay * (2 ^ attempt))
    /\ attempt' = attempt + 1
    /\ UNCHANGED <<last_op, cfg, broker, source, bars, pc, i, open_trade, trades, balance,
                   equity_curve, last_request, error>>

\* _request, lines 269-273: the last attempt fails and the exception is
\* raised again; nothing in _get_signal or run() catches it.
AttemptFailsRaise ==
    /\ pc = "request"
    /\ UNCHANGED <<orchVars, eventVars, rerunVars, mcVars, gridVars, results>>
    /\ attempt < cfg.api_max_retries
    /\ ~(attempt < cfg.api_max_retries - 1)
    /\ pc' = "failed"
    /\ error' = "RequestException"
    /\ UNCHANGED <<last_op, cfg, broker, source, bars, i, open_trade, trades, balance,
                   equity_curve, attempt, delays, last_request>>

\* _request, lines 246-249: the endpoint answers, but the answer lacks a field
\* SignalResponse.from_dict reads; the KeyError is not a RequestException, so
\* it is neither caught nor retried and leaves _request, and run(), at once.
AttemptMalformed ==
    /\ pc = "request"
    /\ UNCHANGED <<orchVars, eventVars, rerunVars, mcVars, gridVars, results>>
    /\ attempt < cfg.api_max_retries
    /\ pc' = "failed"
    /\ error' = "KeyError"
    /\ UNCHANGED <<last_op, cfg, broker, source, bars, i, open_trade, trades, balance,
                   equity_curve, attempt, delays, last_request>>

\* _request, lines 275-276: the retry loop ended without returning or raising.
RequestFallsThrough ==
    /\ pc = "request"
    /\ UNCHANGED <<orchVars, eventVars, rerunVars, mcVars, gridVars, results>>
    /\ ~(attempt < cfg.api_max_retries)
    /\ pc' = "failed"
    /\ error' = "RuntimeError"
    /\ UNCHANGED <<last_op, cfg, broker, source, bars, i, open_trade, trades, balance,
                   equity_curve, attempt, delays, last_request>>

\* The equity point recorded only on bars that end with a position open.
RecordEquity_open_only ==
    /\ pc = "record"
    /\ UNCHANGED <<orchVars, eventVars, rerunVars, mcVars, gridVars, results>>
    /\ equity_curve' = IF IsSome(open_trade)
                       THEN Append(equity_curve,
                                   equity_point(Bar(i).time, balance, open_trade))
                       ELSE equity_curve
    /\ i' = i + 1
    /\ pc' = IF i + 1 < Len(bars) THEN "update" ELSE "final"
    /\ attempt' = 0
    /\ delays' = << >>
    /\ UNCHANGED <<last_op, cfg, broker, source, bars, open_trade, trades, balance,
                   last_request, error>>

\* run(), lines 123-124, and the loop's increment.  The attempt counter and
\* the sleeps of _request are locals of that call: nothing of them is left
\* when the iteration ends.
RecordEquity ==
    /\ pc = "record"
    /\ UNCHANGED <<orchVars, eventVars, rerunVars, mcVars, gridVars, results>>
    /\ equity_curve' = Append(equity_curve, equity_point(Bar(i).time, balance, open_trade))
    /\ i' = i + 1
    /\ pc' = IF i + 1 < Len(bars) THEN "update" ELSE "final"
    /\ attempt' = 0
    /\ delays' = << >>
    /\ UNCHANGED <<last_op, cfg, broker, source, bars, open_trade, trades, balance,
                   last_request, error>>

\* run(), lines 134-153: close what is still open at the last bar's close and
\* return the results.
Finish ==
    /\ pc = "final"
    /\ UNCHANGED <<orchVars, eventVars, rerunVars, mcVars, gridVars>>
    /\ pc' = "done"
    /\ IF IsSome(open_trade)
       THEN \E t \in {close_trade(broker, Val(open_trade), Bar(Len(bars) - 1).time,
                                   Bar(Len(bars) - 1).close, "MANUAL")} :
               /\ open_trade' = Some(t)
               /\ balance' = finalize_balance(balance, t)
               /\ trades' = finalize_trades(trades, t)
               /\ last_op' = Some([op |-> "close", time |-> Bar(Len(bars) - 1).time,
                                   high |-> Bar(Len(bars) - 1).close,
                                   low |-> Bar(Len(bars) - 1).close])
       ELSE UNCHANGED <<last_op, open_trade, balance, trades>>
    /\ results' = Some(compute_results(cfg, trades', equity_curve, balance'))
    /\ UNCHANGED <<cfg, broker, source, bars, i, equity_curve, attempt, delays,
                   last_request, error>>

Next ==
    \/ LoadBars
    \/ UpdateOpenPosition
    \/ RequestSignal
    \/ SkipSignal
    \/ AttemptSucceeds
    \/ AttemptFailsRetry
    \/ AttemptFailsRaise
    \/ AttemptMalformed
    \/ RequestFallsThrough
    \/ RecordEquity
    \/ Finish

Spec == Init /\ [][Next]_vars

(***************************************************************************)
(* The broker simulator on its own: one trade opened by open_trade, then   *)
(* any sequence of update_trade calls with any candle and of _close_trade  *)
(* calls, as BrokerSimulator's callers can make them.  Here i counts the   *)
(* calls made (the time of call k is k) and last_op holds the arguments of *)
(* the last call.  The engine drops a trade as soon as it is closed; the   *)
(* callers here make at most one more call on a closed trade.              *)
(***************************************************************************)

\* The trade can take another call: it is open, or the last call closed it.
CallAllowed ==
    is_closed(Val(open_trade)) => Val(open_trade).exit_time = Some(i)

\* Level sets a signal can carry: stop and targets strictly ordered.
BuyLevels ==
    {l \in [sl : Prices, tp1 : Prices, tp2 : Prices, tp3 : Prices] :
        l.sl < l.tp1 /\ l.tp1 < l.tp2 /\ l.tp2 < l.tp3}

SellLevels ==
    {l \in [sl : Prices, tp1 : Prices, tp2 : Prices, tp3 : Prices] :
        l.sl > l.tp1 /\ l.tp1 > l.tp2 /\ l.tp2 > l.tp3}

\* tp1_percent, tp2_percent, tp3_percent: the default split, one that leaves
\* a remainder, one that exceeds the position, a full close at TP1 and a
\* split between TP2 and TP3 only.
PercentSplits == {<<8, 5, 3>>, <<8, 5, 2>>, <<10, 5, 3>>, <<16, 0, 0>>, <<0, 8, 8>>}

TradeSignals ==
    {[signal |-> "BUY", sl |-> l.sl, tp1 |-> l.tp1, tp2 |-> l.tp2, tp3 |-> l.tp3,
      tp1_percent |-> p[1], tp2_percent |-> p[2], tp3_percent |-> p[3]] :
        l \in BuyLevels, p \in PercentSplits}
    \cup
    {[signal |-> "SELL", sl |-> l.sl, tp1 |-> l.tp1, tp2 |-> l.tp2, tp3 |-> l.tp3,
      tp1_percent |-> p[1], tp2_percent |-> p[2], tp3_percent |-> p[3]] :
        l \in SellLevels, p \in PercentSplits}

InitBroker ==
    /\ cfg \in {c \in Configs : c.fill_at = "next_open" /\ c.use_optimized_mode
                                /\ c.api_max_retries = MaxRetries}
    /\ broker \in BrokerConfigs
    /\ source = << >>
    /\ bars = << >>
    /\ pc = "live"
    /\ i = 0
    /\ \E sig \in TradeSignals, entry_price \in {1, MaxPrice - 1} :
          open_trade = Some(open_trade_op(broker, sig.signal, 0, entry_price,
                                          cfg.lot_size, sig))
    /\ trades = << >>
    /\ balance = cfg.initial_balance_usd
    /\ equity_curve = << >>
    /\ attempt = 0
    /\ delays = << >>
    /\ last_request = None
    /\ last_op = None
    /\ error = "None"
    /\ NoOrchestrator
    /\ NoEventEngine
    /\ NoRerun
    /\ NoMonteCarlo
    /\ NoGridSearch
    /\ results = None

\* A caller's update_trade(trade, time, high, low, close).
BrokerUpdate ==
    /\ pc = "live"
    /\ UNCHANGED <<orchVars, eventVars, rerunVars, mcVars, gridVars, results>>
    /\ i < MaxUpdates
    /\ CallAllowed
    /\ \E low \in Prices, high \in Prices :
          /\ low <= high
          /\ open_trade' = Some(update_trade(broker, Val(open_trade), i + 1, high, low))
          /\ last_op' = Some([op |-> "update", time |-> i + 1, high |-> high, low |-> low])
    /\ i' = i + 1
    /\ UNCHANGED <<cfg, broker, source, bars, pc, trades, balance, equity_curve,
                   attempt, delays, last_request, error>>

\* A caller's _close_trade(trade, time, price, MANUAL), as at the end of run().
BrokerClose ==
    /\ pc = "live"
    /\ UNCHANGED <<orchVars, eventVars, rerunVars, mcVars, gridVars, results>>
    /\ i < MaxUpdates
    /\ CallAllowed
    /\ \E price \in Prices :
          /\ open_trade' = Some(close_trade(broker, Val(open_trade), i + 1, price, "MANUAL"))
          /\ last_op' = Some([op |-> "close", time |-> i + 1, high |-> price, low |-> price])
    /\ i' = i + 1
    /\ UNCHANGED <<cfg, broker, source, bars, pc, trades, balance, equity_curve,
                   attempt, delays, last_request, error>>

NextBroker ==
    \/ BrokerUpdate
    \/ BrokerClose

SpecBroker == InitBroker /\ [][NextBroker]_vars

(***************************************************************************)
(* Orchestration: run_walk_forward and run_grid_search of tests/backtest.py,*)
(* WalkForwardEngine and GridSearchEngine of volarix4_backtest, and the     *)
(* signal cooldown of the /signal endpoint (volarix4/api/main.py).          *)
(* A bar here carries what the strategy finds on it: the confidence of its *)
(* candidate setup (0: no setup) and the net result, in pips, of the trade *)
(* that setup leads to.  A backtest over a window enters and closes the    *)
(* trade of a bar within that bar.  Bars are one hour apart.               *)
(***************************************************************************)

HistoryLen == 5
MaxSplits == 2
YearBars == 3
CooldownHours == 2

\* What a bar can carry: no setup, a low-confidence winner, a low-confidence
\* loser, a high-confidence winner.
SetupKinds ==
    {[confidence |-> 0, pips |-> 0], [confidence |-> 1, pips |-> 2],
     [confidence |-> 1, pips |-> -1], [confidence |-> 2, pips |-> 1]}

\* The loaded series: bar k has time k and lies in year (k - 1) \div YearBars.
HistoriesOfLen(n) ==
    {[k \in 1..n |->
        [time |-> k, year |-> (k - 1) \div YearBars,
         confidence |-> f[k].confidence, pips |-> f[k].pips]] :
     f \in [1..n -> SetupKinds]}
Histories == HistoriesOfLen(HistoryLen - 1) \cup HistoriesOfLen(HistoryLen)

\* The combinations of the parameter grid, in product order.
Combinations ==
    <<[min_confidence |-> 1], [min_confidence |-> 2], [min_confidence |-> 3]>>

\* The timestamps of a window.
TimesOf(window) == {window[k].time : k \in 1..Len(window)}

RECURSIVE SumOf(_)
SumOf(xs) == IF xs = << >> THEN 0 ELSE xs[1] + SumOf(Tail(xs))

\* profit_factor of a result: 0.0 without trades, gross profit over gross
\* loss, float('inf') without a loss.  "neginf" is the value _sort_results
\* takes for a result that has no profit_factor.
ProfitFactor(total_trades, gross_profit, gross_loss) ==
    IF total_trades = 0 THEN [kind |-> "finite", num |-> 0, den |-> 1]
    ELSE IF gross_loss > 0
         THEN [kind |-> "finite", num |-> gross_profit, den |-> gross_loss]
         ELSE [kind |-> "inf", num |-> 0, den |-> 1]

\* a < b and a = b on profit factors.
PFRank(kind) == IF kind = "neginf" THEN 0 ELSE IF kind = "finite" THEN 1 ELSE 2
PFLess(a, b) ==
    IF a.kind = "finite" /\ b.kind = "finite"
    THEN a.num * b.den < b.num * a.den
    ELSE PFRank(a.kind) < PFRank(b.kind)
PFEq(a, b) == ~PFLess(a, b) /\ ~PFLess(b, a)

\* The metrics of a list of trade results (net pips or net USD per trade).
compute_metrics(params, completed) ==
    LET gross_profit == SumOf(SelectSeq(completed, LAMBDA x : x > 0))
        gross_loss == -SumOf(SelectSeq(completed, LAMBDA x : x < 0))
    IN [params |-> params,
        total_trades |-> Len(completed),
        profit_factor |-> ProfitFactor(Len(completed), gross_profit, gross_loss),
        total_pnl_after_costs |-> SumOf(completed)]

\* run_backtest of tests/backtest.py on df: the bars after the lookback are
\* evaluated, a setup below min_confidence is rejected.
RECURSIVE completed_trades(_, _)
completed_trades(window, min_confidence) ==
    IF window = << >> THEN << >>
    ELSE (IF window[1].confidence > 0 /\ ~(window[1].confidence < min_confidence)
          THEN <<window[1].pips>> ELSE << >>)
         \o completed_trades(Tail(window), min_confidence)

run_backtest(params, df, lookback_bars) ==
    compute_metrics(params,
        completed_trades(Slice(df, lookback_bars, Len(df)), params.min_confidence))

\* Row a sorts before row b: sort_values(by=['profit_factor'], ascending=False),
\* or by=['profit_factor', 'total_pnl_after_costs'], both descending.
Before_pf_only(a, b, by) ==
    PFLess(b.profit_factor, a.profit_factor)

Before(a, b, by) ==
    \/ PFLess(b.profit_factor, a.profit_factor)
    \/ /\ by = "pf_pnl"
       /\ PFEq(a.profit_factor, b.profit_factor)
       /\ a.total_pnl_after_costs > b.total_pnl_after_costs

\* The sorted rows; rows that tie on the keys keep their order.
RECURSIVE InsertRow(_, _, _)
InsertRow(x, sorted, by) ==
    IF sorted = << >> THEN <<x>>
    ELSE IF Before(x, sorted[1], by) THEN <<x>> \o sorted
    ELSE <<sorted[1]>> \o InsertRow(x, Tail(sorted), by)

RECURSIVE sort_values(_, _)
sort_values(rows, by) ==
    IF rows = << >> THEN << >>
    ELSE InsertRow(rows[Len(rows)], sort_values(SubSeq(rows, 1, Len(rows) - 1), by), by)

\* run_grid_search of tests/backtest.py: one backtest per combination on df,
\* the rows sorted by profit factor.
run_grid_search(df, lookback_bars) ==
    sort_values([k \in 1..Len(Combinations) |->
                    run_backtest(Combinations[k], df, lookback_bars)], "pf")

\* run_walk_forward: the number of splits made.
effective_splits(p, df_full) ==
    Min(p.splits, (Len(df_full) - p.lookback_bars) \div (p.train_bars + p.test_bars))

\* run_walk_forward with the training frame cut at the end of the test
\* segment.
train_frame_through_test(p, df_full, idx) ==
    LET segment_size == p.train_bars + p.test_bars
        train_start == p.lookback_bars + idx * segment_size
    IN Slice(df_full, train_start - p.lookback_bars, train_start + segment_size)

\* run_walk_forward: train_df of split idx, the lookback bars included.
train_frame(p, df_full, idx) ==
    LET segment_size == p.train_bars + p.test_bars
        train_start == p.lookback_bars + idx * segment_size
        train_end == train_start + p.train_bars
    IN Slice(df_full, train_start - p.lookback_bars, train_end)

\* run_walk_forward: test_df of split idx, the lookback bars included.
test_frame(p, df_full, idx) ==
    LET segment_size == p.train_bars + p.test_bars
        test_start == p.lookback_bars + idx * segment_size + p.train_bars
        test_end == test_start + p.test_bars
    IN Slice(df_full, test_start - p.lookback_bars, test_end)

\* One iteration of run_walk_forward's loop: grid search on the training
\* frame, selection of the best row, one backtest of the selected parameters
\* on the test frame.  train_read is the set of bars handed to the grid
\* search; test_start and test_end bound the evaluated bars of the test
\* segment.
walk_forward_split(p, df_full, idx) ==
    LET test_start == p.lookback_bars + idx * (p.train_bars + p.test_bars) + p.train_bars
        train_df == train_frame(p, df_full, idx)
        test_df == test_frame(p, df_full, idx)
        train_results == run_grid_search(train_df, p.lookback_bars)
        best_params == sort_values(train_results, "pf_pnl")[1]
    IN [kind |-> "bars",
        split |-> idx,
        test_start |-> test_start,
        test_end |-> test_start + p.test_bars,
        train_read |-> TimesOf(train_df),
        train_results |-> train_results,
        best_params |-> best_params,
        test_df |-> test_df,
        test_result |-> run_backtest(best_params.params, test_df, p.lookback_bars)]

\* TRAIN_YEARS of _run_year_based_walk_forward.
TRAIN_YEARS == 1

\* The least and the greatest element of a non-empty set of positions.
FirstOf(positions) == CHOOSE k \in positions : \A m \in positions : k <= m
LastOf(positions) == CHOOSE k \in positions : \A m \in positions : k >= m

\* _run_year_based_walk_forward: the positions (1-based) that train_mask and
\* test_mask select for the test year at position idx of test_years.
train_mask(p, df_full, idx) ==
    LET test_year == p.test_years[idx + 1]
    IN {k \in 1..Len(df_full) : /\ df_full[k].year >= test_year - TRAIN_YEARS
                                /\ df_full[k].year < test_year}
test_mask(p, df_full, idx) ==
    LET test_year == p.test_years[idx + 1]
    IN {k \in 1..Len(df_full) : df_full[k].year = test_year}

\* The year is skipped before any backtest: no training data, no test data,
\* or not enough bars before either period for the lookback.
year_skipped(p, df_full, idx) ==
    LET train == train_mask(p, df_full, idx)
        test == test_mask(p, df_full, idx)
    IN IF train = {} THEN TRUE
       ELSE IF FirstOf(train) - 1 - p.lookback_bars < 0 THEN TRUE
       ELSE IF test = {} THEN TRUE
       ELSE FirstOf(test) - 1 - p.lookback_bars < 0

\* One iteration of _run_year_based_walk_forward's loop for a year that is
\* not skipped.  reported tells whether the year enters split_results: a test
\* run without trades is dropped.
year_based_split(p, df_full, idx) ==
    LET train == train_mask(p, df_full, idx)
        test == test_mask(p, df_full, idx)
        train_df == Slice(df_full, FirstOf(train) - 1 - p.lookback_bars, LastOf(train))
        test_df == Slice(df_full, FirstOf(test) - 1 - p.lookback_bars, LastOf(test))
        train_results == run_grid_search(train_df, p.lookback_bars)
        best_params == sort_values(train_results, "pf_pnl")[1]
        test_result == run_backtest(best_params.params, test_df, p.lookback_bars)
    IN [kind |-> "years",
        split |-> idx,
        test_start |-> FirstOf(test) - 1,
        test_end |-> LastOf(test),
        train_read |-> TimesOf(train_df),
        train_results |-> train_results,
        best_params |-> best_params,
        test_df |-> test_df,
        test_result |-> test_result,
        reported |-> test_result.total_trades # 0]

\* The /signal endpoint on a request whose window ends at bar: HOLD without a
\* setup, below min_confidence, or while the cooldown since the last signal of
\* the symbol is running; otherwise the signal, and the tracker is set to the
\* time of the bar.
signal_endpoint(bar, min_confidence, tracker) ==
    IF bar.confidence = 0 \/ bar.confidence < min_confidence
    THEN [signal |-> "HOLD", tracker |-> tracker]
    ELSE IF IsSome(tracker) /\ bar.time - Val(tracker) < CooldownHours
    THEN [signal |-> "HOLD", tracker |-> tracker]
    ELSE [signal |-> "BUY", tracker |-> Some(bar.time)]

\* The loop of BacktestEngine.run from bar index idx (1-based) on: a signal
\* on a bar that has a next bar opens a trade, which closes on that next bar
\* with the result the bar carries; a signal on the last bar is not filled.
RECURSIVE run_loop(_, _, _, _)
run_loop(window, idx, min_confidence, tracker) ==
    IF idx > Len(window) THEN [trades |-> << >>, tracker |-> tracker]
    ELSE LET r == signal_endpoint(window[idx], min_confidence, tracker)
             rest == run_loop(window, idx + 1, min_confidence, r.tracker)
             filled == r.signal = "BUY" /\ idx + 1 <= Len(window)
         IN [trades |-> (IF filled THEN <<window[idx].pips>> ELSE << >>) \o rest.trades,
             tracker |-> rest.tracker]

\* _run_test_period: a new BacktestEngine on the test bars, against the API
\* process whose tracker is given.
run_test_period(p, test_bars, tracker) ==
    run_loop(test_bars, p.warmup_bars + 1, p.min_confidence, tracker)

\* _split_data_by_year.
split_data_by_year(df, train_start_year, train_end_year, test_year) ==
    [train_bars |-> SelectSeq(df, LAMBDA b : b.year >= train_start_year /\ b.year <= train_end_year),
     test_bars |-> SelectSeq(df, LAMBDA b : b.year = test_year)]

\* The split WalkForwardEngine.run makes for the test year at position idx.
year_split(p, df, idx) ==
    LET test_year == p.test_years[idx + 1]
    IN split_data_by_year(df, test_year - p.train_years_lookback, test_year - 1, test_year)

\* All trades of the years run, in order.
RECURSIVE all_trades(_)
all_trades(by_year) ==
    IF by_year = << >> THEN << >> ELSE by_year[1].trades \o all_trades(Tail(by_year))

\* _compute_aggregate_results.
compute_aggregate_results(by_year) ==
    LET m == compute_metrics(<< >>, all_trades(by_year))
    IN IF by_year = << >>
       THEN [total_trades |-> 0, total_years |-> 0, aggregate_net_profit |-> 0,
             profit_factor |-> ProfitFactor(0, 0, 0)]
       ELSE IF m.total_trades = 0
       THEN [total_trades |-> 0, total_years |-> Len(by_year), aggregate_net_profit |-> 0]
       ELSE [total_trades |-> m.total_trades, total_years |-> Len(by_year),
             aggregate_net_profit |-> m.total_pnl_after_costs,
             profit_factor |-> m.profit_factor]

\* The years the series covers, and the test_years lists considered: one or
\* two different years in either order.
\* The series WalkForwardEngine works on: a first year of YearBars bars
\* without a setup, which can only serve as training data, then the bars of a
\* series of Histories.
YearHistories ==
    {[k \in 1..(YearBars + Len(h)) |->
        [time |-> k, year |-> (k - 1) \div YearBars,
         confidence |-> IF k <= YearBars THEN 0 ELSE h[k - YearBars].confidence,
         pips |-> IF k <= YearBars THEN 0 ELSE h[k - YearBars].pips]] :
     h \in Histories}
Years == {(k - 1) \div YearBars : k \in 1..(YearBars + HistoryLen)}
TestYearLists ==
    {<<y>> : y \in Years} \cup ({<<y, z>> : y, z \in Years} \ {<<y, y>> : y \in Years})

\* What the orchestrators are called with.
WalkForwardArgs ==
    [splits : 1..MaxSplits, train_bars : 1..2, test_bars : 1..2,
     lookback_bars : {LookbackBars}]
YearBasedArgs ==
    [test_years : TestYearLists, lookback_bars : {LookbackBars}]
YearWalkForwardConfigs ==
    [test_years : TestYearLists, train_years_lookback : {1},
     min_confidence : {1, 2}, warmup_bars : {WarmupBars, YearBars}]

InitOrchestrator ==
    /\ cfg \in {c \in Configs : /\ c.lot_size = RunLotSize
                                /\ c.fill_at = "next_open"
                                /\ ~c.use_optimized_mode
                                /\ c.api_max_retries = MaxRetries}
    /\ broker = RunBroker
    /\ source = << >>
    /\ bars = << >>
    /\ i = 0
    /\ open_trade = None
    /\ trades = << >>
    /\ balance = cfg.initial_balance_usd
    /\ equity_curve = << >>
    /\ attempt = 0
    /\ delays = << >>
    /\ last_request = None
    /\ last_op = None
    /\ error = "None"
    /\ \/ pc = "walk_forward" /\ history \in Histories /\ wf_params \in WalkForwardArgs
       \/ pc = "year_based" /\ history \in YearHistories /\ wf_params \in YearBasedArgs
       \/ /\ pc = "year_walk_forward"
          /\ history \in YearHistories
          /\ wf_params \in YearWalkForwardConfigs
    /\ split_idx = 0
    /\ split_results = << >>
    /\ results_by_year = << >>
    /\ aggregate_results = None
    /\ signal_cooldown_tracker = None
    /\ NoEventEngine
    /\ NoRerun
    /\ NoMonteCarlo
    /\ NoGridSearch
    /\ results = None

engineVars == <<results, cfg, broker, source, bars, i, open_trade, trades, balance,
                equity_curve, attempt, delays, last_request, last_op>>

\* run_walk_forward, one iteration of the loop over the splits.
WalkForwardSplit ==
    /\ pc = "walk_forward"
    /\ split_idx < effective_splits(wf_params, history)
    /\ split_results' = Append(split_results, walk_forward_split(wf_params, history, split_idx))
    /\ split_idx' = split_idx + 1
    /\ UNCHANGED <<mcVars, gridVars, rerunVars, eventVars, engineVars, pc, error, history, wf_params, results_by_year,
                   aggregate_results, signal_cooldown_tracker>>

\* run_walk_forward after the last split.
WalkForwardReturn ==
    /\ pc = "walk_forward"
    /\ split_idx >= effective_splits(wf_params, history)
    /\ pc' = "wf_done"
    /\ UNCHANGED <<mcVars, gridVars, rerunVars, eventVars, engineVars, error, orchVars>>

\* _run_year_based_walk_forward, a year that is skipped before any backtest.
YearBasedSkip ==
    /\ pc = "year_based"
    /\ split_idx < Len(wf_params.test_years)
    /\ year_skipped(wf_params, history, split_idx)
    /\ split_idx' = split_idx + 1
    /\ UNCHANGED <<mcVars, gridVars, rerunVars, eventVars, engineVars, pc, error, history, wf_params, split_results,
                   results_by_year, aggregate_results, signal_cooldown_tracker>>

\* _run_year_based_walk_forward, one iteration of the loop over the years.
\* split_results keeps every selection made, reported or not.
YearBasedSplit ==
    /\ pc = "year_based"
    /\ split_idx < Len(wf_params.test_years)
    /\ ~year_skipped(wf_params, history, split_idx)
    /\ split_results' = Append(split_results, year_based_split(wf_params, history, split_idx))
    /\ split_idx' = split_idx + 1
    /\ UNCHANGED <<mcVars, gridVars, rerunVars, eventVars, engineVars, pc, error, history, wf_params, results_by_year,
                   aggregate_results, signal_cooldown_tracker>>

\* _run_year_based_walk_forward after the last year.
YearBasedReturn ==
    /\ pc = "year_based"
    /\ split_idx >= Len(wf_params.test_years)
    /\ pc' = "wf_done"
    /\ UNCHANGED <<mcVars, gridVars, rerunVars, eventVars, engineVars, error, orchVars>>

\* WalkForwardEngine.run, a test year without training or test bars.
SkipTestYear ==
    /\ pc = "year_walk_forward"
    /\ split_idx < Len(wf_params.test_years)
    /\ LET s == year_split(wf_params, history, split_idx)
       IN s.train_bars = << >> \/ s.test_bars = << >>
    /\ split_idx' = split_idx + 1
    /\ UNCHANGED <<mcVars, gridVars, rerunVars, eventVars, engineVars, pc, error, history, wf_params, split_results,
                   results_by_year, aggregate_results, signal_cooldown_tracker>>

\* WalkForwardEngine.run, a test year that is run: the backtest of the test
\* bars, its signals served by the one API process.
RunTestYear ==
    /\ pc = "year_walk_forward"
    /\ split_idx < Len(wf_params.test_years)
    /\ LET s == year_split(wf_params, history, split_idx)
           r == run_test_period(wf_params, s.test_bars, signal_cooldown_tracker)
       IN /\ s.train_bars # << >> /\ s.test_bars # << >>
          /\ ~(Len(s.test_bars) < wf_params.warmup_bars)
          /\ results_by_year' = Append(results_by_year,
                 [test_year |-> wf_params.test_years[split_idx + 1],
                  test_bars |-> s.test_bars,
                  trades |-> r.trades])
          /\ signal_cooldown_tracker' = r.tracker
    /\ split_idx' = split_idx + 1
    /\ UNCHANGED <<mcVars, gridVars, rerunVars, eventVars, engineVars, pc, error, history, wf_params, split_results,
                   aggregate_results>>

\* WalkForwardEngine.run, a test year with fewer bars than warmup_bars: the
\* engine raises ValueError, which nothing catches.
TestYearRaises ==
    /\ pc = "year_walk_forward"
    /\ split_idx < Len(wf_params.test_years)
    /\ LET s == year_split(wf_params, history, split_idx)
       IN /\ s.train_bars # << >> /\ s.test_bars # << >>
          /\ Len(s.test_bars) < wf_params.warmup_bars
    /\ pc' = "wf_failed"
    /\ error' = "ValueError"
    /\ UNCHANGED <<mcVars, gridVars, rerunVars, eventVars, engineVars, orchVars>>

\* WalkForwardEngine.run after the last test year.
ComputeAggregate ==
    /\ pc = "year_walk_forward"
    /\ split_idx >= Len(wf_params.test_years)
    /\ aggregate_results' = Some(compute_aggregate_results(results_by_year))
    /\ pc' = "wf_done"
    /\ UNCHANGED <<mcVars, gridVars, rerunVars, eventVars, engineVars, error, history, wf_params, split_idx, split_results,
                   results_by_year, signal_cooldown_tracker>>

NextOrchestrator ==
    \/ WalkForwardSplit
    \/ WalkForwardReturn
    \/ YearBasedSkip
    \/ YearBasedSplit
    \/ YearBasedReturn
    \/ SkipTestYear
    \/ RunTestYear
    \/ TestYearRaises
    \/ ComputeAggregate

SpecOrchestrator == InitOrchestrator /\ [][NextOrchestrator]_vars

(***************************************************************************)
(* Properties of the orchestrators (SpecOrchestrator)                      *)
(***************************************************************************)

\* The series that differ from df at most on the bars a+1..b.
AlteredWithin(df, a, b) ==
    {[k \in 1..Len(df) |->
        IF k > a /\ k <= b
        THEN [df[k] EXCEPT !.confidence = f[k].confidence, !.pips = f[k].pips]
        ELSE df[k]] :
     f \in [(a + 1)..Min(b, Len(df)) -> SetupKinds]}

\* The combination the orchestrator selects in the split of record r when
\* the series is df.
selected_on(df, r) ==
    IF r.kind = "bars"
    THEN walk_forward_split(wf_params, df, r.split).best_params.params
    ELSE year_based_split(wf_params, df, r.split).best_params.params

C9_BestTrainingProfitFactor ==
    \A n \in 1..Len(split_results) :
        LET r == split_results[n]
            rows == r.train_results
        IN /\ \E k \in 1..Len(rows) : rows[k] = r.best_params
           /\ \A k \in 1..Len(rows) :
                  /\ ~PFLess(r.best_params.profit_factor, rows[k].profit_factor)
                  /\ PFEq(r.best_params.profit_factor, rows[k].profit_factor)
                         => r.best_params.total_pnl_after_costs
                                >= rows[k].total_pnl_after_costs

\* A split in which a row listed before the selected one by the grid search
\* ties with it on the training profit factor and has a smaller net P&L.
C9_Witness ==
    \E n \in 1..Len(split_results) :
        LET r == split_results[n]
        IN /\ PFEq(r.train_results[1].profit_factor, r.best_params.profit_factor)
           /\ r.train_results[1].total_pnl_after_costs
                  < r.best_params.total_pnl_after_costs

\* C10: the result of every backtest run the orchestrator starts is the
\* result the same run gives when nothing ran before it.
C10_RunsShareNoState ==
    \A n \in 1..Len(results_by_year) :
        results_by_year[n].trades
            = run_test_period(wf_params, results_by_year[n].test_bars, None).trades

(***************************************************************************)
(* tests/backtest.py (Trade, check_trade_outcome, run_backtest) and        *)
(* tests/backtest_engine (tick generator, BacktestBroker, Volarix4EA,      *)
(* BacktestEngine): the legacy bar loop and the event-driven engine, run   *)
(* one after the other on the same candles with the same parameters.       *)
(* Prices are in pips, on a grid of sl_pips_beyond pips.  pnl_pips and     *)
(* pnl_after_costs are in tenths of a pip; remaining_volume and the TP     *)
(* allocations of the event-driven broker are in tenths of the position.   *)
(* A candle carries, besides its OHLC, the rejection candle that filters   *)
(* 1 to 7 of the strategy find when they are run on the data up to it      *)
(* (none, or a direction and a level); both engines run these filters on   *)
(* df.iloc[:k + 1], so they see the same rejection on bar k.  The broken-  *)
(* level bookkeeping of filter 4 is not modelled.  Timestamps are hours.   *)
(***************************************************************************)

EventBars == 4

\* calculate_sl_tp(..., sl_pips_beyond=10.0, ...) as both engines call it.
SlPipsBeyond == 10
\* run_backtest(signal_cooldown_hours=2.0), run_backtest(min_edge_pips=4.0)
SignalCooldownHours == 2
MinEdgePips == 4

\* The lowest price of the candles, in grid steps: far enough above zero for
\* every stop and target to be a positive price.
GridOrigin == 100

\* The price p steps of the grid above the lowest one.
Grid(p) == (GridOrigin + p) * SlPipsBeyond

\* The parameters shared by the two runs, and the two switches of the
\* event-driven broker (backtest_engine/config.py).
EventConfigs ==
    [spread_pips : {2},
     slippage_pips : {0},
     commission_per_side_per_lot : {1},
     lot_size : {1},
     usd_per_pip_per_lot : {1},
     min_edge_pips : {MinEdgePips},
     signal_cooldown_hours : {SignalCooldownHours},
     lookback_bars : {LookbackBars},
     max_positions : {1},
     exit_semantics : {"open_only", "ohlc_intrabar"},
     tp_model : {"full_close_first_tp", "partial_tps"}]

\* LEGACY_PARITY_CONFIG
LegacyParity(c) ==
    c.exit_semantics = "ohlc_intrabar" /\ c.tp_model = "full_close_first_tp"

\* One row of df.
Candle(time, open, high, low, close, rejection) ==
    [time |-> time, open |-> open, high |-> high, low |-> low, close |-> close,
     rejection |-> rejection]

\* <<open, high, low, close>> of the candles of a series, in grid steps: a
\* flat candle at each level and a candle that opens at 1 and dips to 0.
CandleShapes ==
    {<<p, p, p, p>> : p \in 0..4} \cup {<<1, 1, 0, 1>>}

\* What filters 1 to 7 can find on a bar: nothing, a BUY rejection at
\* support 1 or a SELL rejection at resistance 3.
Rejections ==
    {None,
     Some([direction |-> "BUY", level |-> Grid(1)]),
     Some([direction |-> "SELL", level |-> Grid(3)])}

\* The series df: n candles one hour apart, the first one flat, rejections
\* on all but the last two.
EventSeriesOfLen(n) ==
    LET shapes == [1..n -> CandleShapes]
        found == [1..n -> Rejections]
    IN {[k \in 1..n |-> Candle(k, Grid(f[k][1]), Grid(f[k][2]), Grid(f[k][3]),
                               Grid(f[k][4]), r[k])] :
           f \in {g \in shapes : g[1][2] = g[1][3]},
           r \in {q \in found : \A k \in 1..n : k > n - 2 => q[k] = None}}

\* calculate_sl_tp (volarix4/core/trade_setup.py) with tp_ratios [1, 2, 3].
calculate_sl_tp(entry, level, direction) ==
    IF direction = "BUY"
    THEN LET sl == level - SlPipsBeyond
         IN [sl |-> sl, tp1 |-> entry + 1 * (entry - sl),
             tp2 |-> entry + 2 * (entry - sl), tp3 |-> entry + 3 * (entry - sl)]
    ELSE LET sl == level + SlPipsBeyond
         IN [sl |-> sl, tp1 |-> entry - 1 * (sl - entry),
             tp2 |-> entry - 2 * (sl - entry), tp3 |-> entry - 3 * (sl - entry)]

\* levels_sane (tests/backtest.py)
levels_sane(entry, sl, tp1, tp2, tp3, direction) ==
    IF direction = "BUY" THEN sl < entry /\ entry < tp1 /\ tp1 < tp2 /\ tp2 < tp3
    ELSE IF direction = "SELL"
    THEN tp3 < tp2 /\ tp2 < tp1 /\ tp1 < entry /\ entry < sl
    ELSE FALSE

\* Trade.__init__ (tests/backtest.py): the entry pays half the spread and the
\* slippage.  tp_levels_hit is the attribute the event-driven broker adds.
\* deals is a history of the fills the event-driven broker applies to the
\* trade's position (what was hit: 0 for the stop, 1 to 3 for a target; the
\* volume taken off remaining_volume; the price; the time); the code keeps
\* remaining_volume and tp_levels_hit only.
Trade(entry_time, direction, entry, sl, tp1, tp2, tp3, c) ==
    [entry_time |-> entry_time,
     direction |-> direction,
     entry_raw |-> entry,
     sl |-> sl, tp1 |-> tp1, tp2 |-> tp2, tp3 |-> tp3,
     status |-> "open",
     exit_time |-> None,
     exit_price |-> None,
     pnl_pips |-> 0,
     pnl_after_costs |-> 0,
     exit_reason |-> "",
     spread_pips |-> c.spread_pips,
     slippage_pips |-> c.slippage_pips,
     commission_per_side_per_lot |-> c.commission_per_side_per_lot,
     lot_size |-> c.lot_size,
     entry |-> IF direction = "BUY"
               THEN entry + (c.spread_pips \div 2 + c.slippage_pips)
               ELSE entry - (c.spread_pips \div 2 + c.slippage_pips),
     entry_commission |-> c.commission_per_side_per_lot * c.lot_size,
     tp_levels_hit |-> << >>,
     deals |-> << >>]

\* apply_exit_costs
apply_exit_costs(trade, exit_price) ==
    IF trade.direction = "BUY"
    THEN exit_price - (trade.spread_pips \div 2 + trade.slippage_pips)
    ELSE exit_price + (trade.spread_pips \div 2 + trade.slippage_pips)

\* commission_usd_to_pips
commission_usd_to_pips(commission_usd, usd_per_pip_per_lot) ==
    IF usd_per_pip_per_lot = 0 THEN 0 ELSE commission_usd \div usd_per_pip_per_lot

\* (price - entry) / pip_value for a BUY, (entry - price) / pip_value for a SELL.
signed_pips(trade, price) ==
    IF trade.direction = "BUY" THEN price - trade.entry ELSE trade.entry - price

\* pnl_after_costs for a gross result and a number of exit sides, in tenths.
after_commission(trade, pnl_pips, exit_sides, usd_per_pip_per_lot) ==
    LET exit_commission_usd ==
            exit_sides * trade.commission_per_side_per_lot * trade.lot_size
        total_commission_usd == trade.entry_commission + exit_commission_usd
    IN pnl_pips - 10 * commission_usd_to_pips(total_commission_usd, usd_per_pip_per_lot)

\* check_trade_outcome, the stop-loss branch.
outcome_sl(trade, bar, usd_per_pip_per_lot) ==
    LET exit_price_after_costs == apply_exit_costs(trade, trade.sl)
        pnl_pips == 10 * signed_pips(trade, exit_price_after_costs)
    IN [trade EXCEPT !.status = "loss",
                     !.exit_time = Some(bar.time),
                     !.exit_price = Some(exit_price_after_costs),
                     !.pnl_pips = pnl_pips,
                     !.pnl_after_costs =
                         after_commission(trade, pnl_pips, 1, usd_per_pip_per_lot),
                     !.exit_reason = "SL hit"]

\* check_trade_outcome, the branch of the furthest target the bar reaches
\* (highest = 3, 2 or 1): the whole trade is closed, its result weighted
\* 0.5 / 0.3 / 0.2 over the targets up to that one.
outcome_tp(trade, bar, highest, usd_per_pip_per_lot) ==
    LET tp1_exit == apply_exit_costs(trade, trade.tp1)
        tp2_exit == apply_exit_costs(trade, trade.tp2)
        tp3_exit == apply_exit_costs(trade, trade.tp3)
        weighted_pips ==
            5 * signed_pips(trade, tp1_exit)
            + (IF highest >= 2 THEN 3 * signed_pips(trade, tp2_exit) ELSE 0)
            + (IF highest >= 3 THEN 2 * signed_pips(trade, tp3_exit) ELSE 0)
    IN [trade EXCEPT !.status = "win",
                     !.exit_time = Some(bar.time),
                     !.exit_price = Some(IF highest = 3 THEN tp3_exit
                                         ELSE IF highest = 2 THEN tp2_exit
                                         ELSE tp1_exit),
                     !.pnl_pips = weighted_pips,
                     !.pnl_after_costs =
                         after_commission(trade, weighted_pips, highest,
                                          usd_per_pip_per_lot),
                     !.exit_reason = IF highest = 3 THEN "All TPs hit"
                                     ELSE IF highest = 2 THEN "TP2 hit"
                                     ELSE "TP1 hit"]

\* check_trade_outcome: the trade after the bar (closed when its status is
\* no longer "open").
check_trade_outcome(trade, bar, usd_per_pip_per_lot) ==
    IF trade.direction = "BUY"
    THEN IF bar.low <= trade.sl THEN outcome_sl(trade, bar, usd_per_pip_per_lot)
         ELSE IF bar.high >= trade.tp3 THEN outcome_tp(trade, bar, 3, usd_per_pip_per_lot)
         ELSE IF bar.high >= trade.tp2 THEN outcome_tp(trade, bar, 2, usd_per_pip_per_lot)
         ELSE IF bar.high >= trade.tp1 THEN outcome_tp(trade, bar, 1, usd_per_pip_per_lot)
         ELSE trade
    ELSE IF bar.high >= trade.sl THEN outcome_sl(trade, bar, usd_per_pip_per_lot)
         ELSE IF bar.low <= trade.tp3 THEN outcome_tp(trade, bar, 3, usd_per_pip_per_lot)
         ELSE IF bar.low <= trade.tp2 THEN outcome_tp(trade, bar, 2, usd_per_pip_per_lot)
         ELSE IF bar.low <= trade.tp1 THEN outcome_tp(trade, bar, 1, usd_per_pip_per_lot)
         ELSE trade

\* Filter 8 of both engines: the signal cooldown blocks the bar.
in_signal_cooldown(c, last, current_time) ==
    IsSome(last) /\ current_time - Val(last) < c.signal_cooldown_hours

\* The minimum-edge test of filter 9: TP1 does not cover the round-trip costs.
insufficient_edge(c, direction, tp1, entry) ==
    LET commission_pips ==
            (2 * c.commission_per_side_per_lot * c.lot_size) \div c.usd_per_pip_per_lot
        total_cost_pips == c.spread_pips + 2 * c.slippage_pips + commission_pips
        tp1_distance_pips == IF direction = "BUY" THEN tp1 - entry ELSE entry - tp1
    IN tp1_distance_pips <= total_cost_pips + c.min_edge_pips

\* run_backtest, lines 987-1120: filters 5 to 9 on bar i and the trade they
\* create, entered at the open of bar i + 1; None when the bar gives no trade.
legacy_entry(c, df, idx, last) ==
    LET current_bar == df[idx + 1]
        rejection == current_bar.rejection
    IN IF IsNone(rejection) THEN None
       ELSE IF in_signal_cooldown(c, last, current_bar.time) THEN None
       ELSE IF ~(idx + 1 < Len(df)) THEN None
       ELSE LET entry_bar == df[idx + 2]
                actual_entry == entry_bar.open
                direction == Val(rejection).direction
                trade_params == calculate_sl_tp(actual_entry, Val(rejection).level,
                                                direction)
            IN IF ~levels_sane(actual_entry, trade_params.sl, trade_params.tp1,
                               trade_params.tp2, trade_params.tp3, direction)
               THEN None
               ELSE IF insufficient_edge(c, direction, trade_params.tp1, actual_entry)
               THEN None
               ELSE Some(Trade(entry_bar.time, direction, actual_entry,
                               trade_params.sl, trade_params.tp1, trade_params.tp2,
                               trade_params.tp3, c))

\* run_backtest, lines 1148-1149 and the "trades" of its result.
legacy_results(ts) == SelectSeq(ts, LAMBDA t : t.status # "open_at_end")

\* get_tp_allocations (backtest_engine/config.py), in tenths.
get_tp_allocations(tp_model) ==
    IF tp_model = "full_close_first_tp" THEN <<10, 10, 10>> ELSE <<5, 3, 2>>

\* Tick as OpenPriceTickGenerator.generate_ticks builds it for bar k.
OpenPriceTick(df, k) ==
    [timestamp |-> df[k + 1].time, bid |-> df[k + 1].open, ask |-> df[k + 1].open,
     bar_index |-> k, bar_data |-> df[k + 1], is_bar_open |-> TRUE]

\* BrokerState() and EAState()
NewBrokerState ==
    [open_positions |-> << >>, pending_orders |-> << >>, closed_trades |-> << >>,
     next_position_id |-> 1, next_order_id |-> 1]

NewEAState == [last_signal_time |-> None, last_bar_index |-> -1]

\* Position
Position(position_id, trade) ==
    [position_id |-> position_id, trade |-> trade, remaining_volume |-> 10,
     tp_levels_hit |-> << >>]

\* Position.is_fully_closed
is_fully_closed(p) == p.remaining_volume <= 0 \/ Len(p.tp_levels_hit) >= 3

\* The elements of a sequence of TP levels.
LevelsOf(hit) == {hit[k] : k \in 1..Len(hit)}

\* BacktestBroker._close_position_sl
close_position_sl(c, p, tick, price) ==
    LET trade == p.trade
        exit_price_after_costs == apply_exit_costs(trade, price)
        pnl_pips == 10 * signed_pips(trade, exit_price_after_costs)
    IN [p EXCEPT !.trade = [trade EXCEPT
                               !.status = "loss",
                               !.exit_time = Some(tick.timestamp),
                               !.exit_price = Some(exit_price_after_costs),
                               !.pnl_pips = pnl_pips,
                               !.pnl_after_costs =
                                   after_commission(trade, pnl_pips, 1,
                                                    c.usd_per_pip_per_lot),
                               !.exit_reason = "SL hit",
                               !.deals = Append(@, [hit |-> 0,
                                                    volume |-> p.remaining_volume,
                                                    price |-> price,
                                                    time |-> tick.timestamp])],
                 !.remaining_volume = 0]

\* BacktestBroker._calculate_weighted_pnl: the trade of a position whose
\* targets are all accounted for.
calculate_weighted_pnl(c, trade, tp_levels_hit) ==
    LET highest_tp == CHOOSE x \in LevelsOf(tp_levels_hit) :
                          \A y \in LevelsOf(tp_levels_hit) : y <= x
        exit_price_after_costs ==
            IF highest_tp = 1 THEN apply_exit_costs(trade, trade.tp1)
            ELSE IF highest_tp = 2 THEN apply_exit_costs(trade, trade.tp2)
            ELSE apply_exit_costs(trade, trade.tp3)
        tp1_pips == signed_pips(trade, trade.tp1)
        tp2_pips == signed_pips(trade, trade.tp2)
        tp3_pips == signed_pips(trade, trade.tp3)
        weighted_pips == IF highest_tp = 3 THEN 5 * tp1_pips + 3 * tp2_pips + 2 * tp3_pips
                         ELSE IF highest_tp = 2 THEN 5 * tp1_pips + 3 * tp2_pips
                         ELSE 5 * tp1_pips
    IN [trade EXCEPT !.exit_price = Some(exit_price_after_costs),
                     !.exit_reason = IF highest_tp = 3 THEN "All TPs hit"
                                     ELSE IF highest_tp = 2 THEN "TP1 + TP2 hit"
                                     ELSE "TP1 hit",
                     !.pnl_pips = weighted_pips,
                     !.pnl_after_costs =
                         after_commission(trade, weighted_pips, highest_tp,
                                          c.usd_per_pip_per_lot)]

\* BacktestBroker._close_partial_tp
close_partial_tp(c, p, tick, tp_level, tp_price) ==
    LET q == [p EXCEPT !.tp_levels_hit = Append(@, tp_level),
                       !.remaining_volume = @ - get_tp_allocations(c.tp_model)[tp_level],
                       !.trade.deals =
                           Append(@, [hit |-> tp_level,
                                      volume |-> get_tp_allocations(c.tp_model)[tp_level],
                                      price |-> tp_price,
                                      time |-> tick.timestamp])]
    IN IF is_fully_closed(q)
       THEN [q EXCEPT !.trade = calculate_weighted_pnl(
                                    c, [q.trade EXCEPT !.status = "win",
                                                       !.exit_time = Some(tick.timestamp)],
                                    q.tp_levels_hit)]
       ELSE q

\* _check_sl_tp_on_tick with OPEN_ONLY testing the candle's high and low, as
\* OHLC_INTRABAR does.
check_sl_tp_on_tick_range(c, p, tick) ==
    LET trade == p.trade
        low == tick.bar_data.low
        high == tick.bar_data.high
    IN IF trade.direction = "BUY"
       THEN IF low <= trade.sl THEN close_position_sl(c, p, tick, trade.sl)
            ELSE IF high >= trade.tp3 /\ 3 \notin LevelsOf(p.tp_levels_hit)
            THEN close_partial_tp(c, p, tick, 3, trade.tp3)
            ELSE IF high >= trade.tp2 /\ 2 \notin LevelsOf(p.tp_levels_hit)
            THEN close_partial_tp(c, p, tick, 2, trade.tp2)
            ELSE IF high >= trade.tp1 /\ 1 \notin LevelsOf(p.tp_levels_hit)
            THEN close_partial_tp(c, p, tick, 1, trade.tp1)
            ELSE p
       ELSE IF high >= trade.sl THEN close_position_sl(c, p, tick, trade.sl)
            ELSE IF low <= trade.tp3 /\ 3 \notin LevelsOf(p.tp_levels_hit)
            THEN close_partial_tp(c, p, tick, 3, trade.tp3)
            ELSE IF low <= trade.tp2 /\ 2 \notin LevelsOf(p.tp_levels_hit)
            THEN close_partial_tp(c, p, tick, 2, trade.tp2)
            ELSE IF low <= trade.tp1 /\ 1 \notin LevelsOf(p.tp_levels_hit)
            THEN close_partial_tp(c, p, tick, 1, trade.tp1)
            ELSE p

\* BacktestBroker._check_sl_tp_on_tick: the position after the tick.  OPEN_ONLY
\* tests the tick price (bid for a BUY, ask for a SELL) and closes a stopped
\* position at that price; OHLC_INTRABAR tests the candle's low and high and
\* closes a stopped position at its stop.  At most one level acts per tick.
check_sl_tp_on_tick(c, p, tick) ==
    LET trade == p.trade
        open_only == c.exit_semantics = "open_only"
        price == IF trade.direction = "BUY" THEN tick.bid ELSE tick.ask
        low == IF open_only THEN price ELSE tick.bar_data.low
        high == IF open_only THEN price ELSE tick.bar_data.high
        sl_price == IF open_only THEN price ELSE trade.sl
    IN IF c.exit_semantics \notin {"open_only", "ohlc_intrabar"} THEN p
       ELSE IF trade.direction = "BUY"
       THEN IF low <= trade.sl THEN close_position_sl(c, p, tick, sl_price)
            ELSE IF high >= trade.tp3 /\ 3 \notin LevelsOf(p.tp_levels_hit)
            THEN close_partial_tp(c, p, tick, 3, trade.tp3)
            ELSE IF high >= trade.tp2 /\ 2 \notin LevelsOf(p.tp_levels_hit)
            THEN close_partial_tp(c, p, tick, 2, trade.tp2)
            ELSE IF high >= trade.tp1 /\ 1 \notin LevelsOf(p.tp_levels_hit)
            THEN close_partial_tp(c, p, tick, 1, trade.tp1)
            ELSE p
       ELSE IF high >= trade.sl THEN close_position_sl(c, p, tick, sl_price)
            ELSE IF low <= trade.tp3 /\ 3 \notin LevelsOf(p.tp_levels_hit)
            THEN close_partial_tp(c, p, tick, 3, trade.tp3)
            ELSE IF low <= trade.tp2 /\ 2 \notin LevelsOf(p.tp_levels_hit)
            THEN close_partial_tp(c, p, tick, 2, trade.tp2)
            ELSE IF low <= trade.tp1 /\ 1 \notin LevelsOf(p.tp_levels_hit)
            THEN close_partial_tp(c, p, tick, 1, trade.tp1)
            ELSE p

\* BacktestBroker.on_tick: every open position is checked against the tick;
\* one that changed and is fully closed moves to closed_trades.
broker_on_tick(c, st, tick) ==
    LET checked == [k \in 1..Len(st.open_positions) |->
                       <<st.open_positions[k],
                         check_sl_tp_on_tick(c, st.open_positions[k], tick)>>]
        leaves(pr) == pr[1] # pr[2] /\ is_fully_closed(pr[2])
        closing == SelectSeq(checked, leaves)
        staying == SelectSeq(checked, LAMBDA pr : ~leaves(pr))
    IN [st EXCEPT
           !.open_positions = [k \in 1..Len(staying) |-> staying[k][2]],
           !.closed_trades = @ \o [k \in 1..Len(closing) |->
                                      [closing[k][2].trade EXCEPT
                                          !.tp_levels_hit = closing[k][2].tp_levels_hit]]]

\* BacktestBroker.place_order
place_order(st, signal_data, signal_bar_index, signal_bar_time) ==
    [st EXCEPT !.pending_orders =
                   Append(@, [order_id |-> st.next_order_id,
                              direction |-> signal_data.direction,
                              signal_data |-> signal_data,
                              signal_bar_time |-> signal_bar_time,
                              entry_bar_index |-> signal_bar_index]),
               !.next_order_id = @ + 1]

\* BacktestBroker._execute_order: the position an order turns into.
execute_order(c, position_id, order, tick) ==
    Position(position_id,
             Trade(tick.timestamp, order.direction, tick.bid,
                   order.signal_data.trade_params.sl, order.signal_data.trade_params.tp1,
                   order.signal_data.trade_params.tp2, order.signal_data.trade_params.tp3,
                   c))

\* BacktestBroker.execute_pending_orders
execute_pending_orders(c, st, tick) ==
    LET due(order) == tick.bar_index = order.entry_bar_index /\ tick.is_bar_open
        executed == SelectSeq(st.pending_orders, due)
    IN [st EXCEPT
           !.pending_orders = SelectSeq(@, LAMBDA order : ~due(order)),
           !.open_positions = @ \o [k \in 1..Len(executed) |->
                                       execute_order(c, st.next_position_id + k - 1,
                                                     executed[k], tick)],
           !.next_position_id = @ + Len(executed)]

\* Volarix4EA._run_filter_pipeline_for_bar: filters 5 to 9 on a closed bar;
\* the levels are computed from that bar's close.
run_filter_pipeline_for_bar(c, df, ea, bar_index) ==
    LET current_bar == df[bar_index + 1]
        rejection == current_bar.rejection
    IN IF IsNone(rejection) THEN None
       ELSE IF in_signal_cooldown(c, ea.last_signal_time, current_bar.time) THEN None
       ELSE LET estimated_entry == current_bar.close
                direction == Val(rejection).direction
                trade_params == calculate_sl_tp(estimated_entry, Val(rejection).level,
                                                direction)
            IN IF ~levels_sane(estimated_entry, trade_params.sl, trade_params.tp1,
                               trade_params.tp2, trade_params.tp3, direction)
               THEN None
               ELSE IF insufficient_edge(c, direction, trade_params.tp1, estimated_entry)
               THEN None
               ELSE Some([direction |-> direction, rejection |-> Val(rejection),
                          trade_params |-> trade_params])

\* Volarix4EA.on_bar: <<EA state, broker state>> after the bar that opens
\* with the tick; the bar before it is the one analysed.
on_bar(c, df, ea, st, tick) ==
    IF tick.bar_index = 0 THEN <<ea, st>>
    ELSE IF Len(st.open_positions) >= c.max_positions THEN <<ea, st>>
    ELSE LET signal_bar_index == tick.bar_index - 1
             signal_data == run_filter_pipeline_for_bar(c, df, ea, signal_bar_index)
         IN IF IsNone(signal_data) THEN <<ea, st>>
            ELSE <<[ea EXCEPT !.last_signal_time = Some(df[signal_bar_index + 1].time)],
                   place_order(st, Val(signal_data), tick.bar_index,
                               df[signal_bar_index + 1].time)>>

\* Volarix4EA.on_tick
ea_on_tick(c, df, ea, st, tick) ==
    IF tick.bar_index > ea.last_bar_index
    THEN <<[on_bar(c, df, ea, st, tick)[1] EXCEPT !.last_bar_index = tick.bar_index],
           on_bar(c, df, ea, st, tick)[2]>>
    ELSE <<ea, st>>

\* The variables the two runs leave alone.
idleVars == <<broker, source, balance, equity_curve, attempt, delays, last_request,
              last_op, error, orchVars, rerunVars, mcVars, gridVars, results>>

InitEvent ==
    /\ cfg \in EventConfigs
    /\ broker = RunBroker
    /\ source = << >>
    /\ bars \in EventSeriesOfLen(EventBars)
    /\ pc = "legacy"
    /\ i = cfg.lookback_bars
    /\ open_trade = None
    /\ trades = << >>
    /\ balance = InitialBalance
    /\ equity_curve = << >>
    /\ attempt = 0
    /\ delays = << >>
    /\ last_request = None
    /\ last_op = None
    /\ error = "None"
    /\ NoOrchestrator
    /\ NoRerun
    /\ NoMonteCarlo
    /\ NoGridSearch
    /\ results = None
    /\ last_signal_time = None
    /\ broker_state = NewBrokerState
    /\ ea_state = NewEAState
    /\ last_bar_index = -1

\* run_backtest, one iteration of the bar loop (lines 863-1141): the open
\* trade is checked against bar i, then, with no trade open, the filters run
\* on bar i and an accepted setup becomes a trade entered at bar i + 1.
LegacyBar ==
    /\ pc = "legacy"
    /\ i < Len(bars)
    /\ \E checked \in {IF IsSome(open_trade)
                       THEN check_trade_outcome(Val(open_trade), bars[i + 1],
                                                cfg.usd_per_pip_per_lot)
                       ELSE [status |-> "none"]} :
          /\ trades' = IF checked.status \in {"win", "loss"}
                       THEN Append(trades, checked) ELSE trades
          /\ IF checked.status = "open"
             THEN /\ open_trade' = Some(checked)
                  /\ last_signal_time' = last_signal_time
             ELSE \E entered \in {legacy_entry(cfg, bars, i, last_signal_time)} :
                     /\ open_trade' = entered
                     /\ last_signal_time' = IF IsSome(entered)
                                            THEN Some(bars[i + 1].time)
                                            ELSE last_signal_time
    /\ i' = i + 1
    /\ UNCHANGED <<cfg, bars, pc, broker_state, ea_state, last_bar_index, idleVars>>

\* run_backtest after the loop (lines 1143-1149): a trade still open is
\* marked "open_at_end" and kept out of the completed trades.  The event-
\* driven run starts next.
LegacyReturn ==
    /\ pc = "legacy"
    /\ ~(i < Len(bars))
    /\ trades' = IF IsSome(open_trade)
                 THEN Append(trades, [Val(open_trade) EXCEPT !.status = "open_at_end"])
                 ELSE trades
    /\ open_trade' = IF IsSome(open_trade)
                     THEN Some([Val(open_trade) EXCEPT !.status = "open_at_end"])
                     ELSE open_trade
    /\ pc' = "event"
    /\ UNCHANGED <<cfg, bars, i, last_signal_time, broker_state, ea_state,
                   last_bar_index, idleVars>>

\* The bar index of the next tick of generate_ticks(start_index=lookback_bars).
NextTickIndex ==
    IF last_bar_index = -1 THEN cfg.lookback_bars ELSE last_bar_index + 1

\* BacktestEngine.run, one iteration of the tick loop (lines 84-107): the
\* broker checks SL/TP, the EA handles the tick, the broker executes the
\* orders that are due.
EventTick ==
    /\ pc = "event"
    /\ NextTickIndex < Len(bars)
    /\ \E tick \in {OpenPriceTick(bars, NextTickIndex)} :
       \E st1 \in {broker_on_tick(cfg, broker_state, tick)} :
       \E es \in {ea_on_tick(cfg, bars, ea_state, st1, tick)} :
          /\ ea_state' = es[1]
          /\ broker_state' = IF tick.is_bar_open
                             THEN execute_pending_orders(cfg, es[2], tick)
                             ELSE es[2]
          /\ last_bar_index' = tick.bar_index
    /\ UNCHANGED <<cfg, bars, pc, i, open_trade, trades, last_signal_time, idleVars>>

\* BacktestEngine.run after the last tick (line 117): the statistics are
\* computed from broker.state.closed_trades.
EventReturn ==
    /\ pc = "event"
    /\ ~(NextTickIndex < Len(bars))
    /\ pc' = "done"
    /\ UNCHANGED <<cfg, bars, i, open_trade, trades, eventVars, idleVars>>

NextEvent ==
    \/ LegacyBar
    \/ LegacyReturn
    \/ EventTick
    \/ EventReturn

SpecEvent == InitEvent /\ [][NextEvent]_vars

(***************************************************************************)
(* Properties of the broker simulator (SpecBroker)                         *)
(***************************************************************************)

\* The last broker call was update_trade on a trade that was still open.
UpdatedWhileOpen ==
    /\ IsSome(last_op)
    /\ Val(last_op).op = "update"
    /\ Val(open_trade).exit_time \in {None, Some(Val(last_op).time)}

\* The bar of the last update_trade call meets the stop-loss condition and
\* the condition of at least one take-profit level.
StopAndTargetOnBar ==
    LET t == Val(open_trade)
        o == Val(last_op)
    IN /\ sl_condition(t, o.high, o.low)
       /\ \E level \in {t.tp1, t.tp2, t.tp3} : tp_condition(t, level, o.high, o.low)

\* No take-profit leg is registered for the trade at the given time.
NoTpLegAt(t, time) ==
    /\ t.tp1_exit_time # Some(time)
    /\ t.tp2_exit_time # Some(time)
    /\ t.tp3_exit_time # Some(time)
    /\ \A k \in 1..Len(t.legs) :
          t.legs[k].time = time => t.legs[k].reason \notin {"TP1", "TP2", "TP3"}

C3_ClosedLotsConserved ==
    is_closed(Val(open_trade)) =>
        Val(open_trade).closed_lots = Val(open_trade).lot_size

\* C4: remaining_lots equals lot_size - closed_lots in every state of a
\* trade.
C4_RemainingLots ==
    Val(open_trade).remaining_lots
        = Val(open_trade).lot_size - Val(open_trade).closed_lots

(***************************************************************************)
(* Properties of the engine run (Spec)                                     *)
(***************************************************************************)

\* The bars of a window carry no timestamp later than t.
NoBarAfter(window, t) ==
    \A k \in 1..Len(window) : window[k].time <= t

C2_OptimizedRequest ==
    /\ IsSome(last_request)
    /\ cfg.use_optimized_mode
    /\ Val(last_request).index + 1 < Len(bars)

\* The holding periods of the trades of a run, the open one last.
Positions ==
    trades \o (IF IsSome(open_trade) /\ ~is_closed(Val(open_trade))
               THEN <<Val(open_trade)>> ELSE << >>)

EquityCovers(n) ==
    /\ Len(equity_curve) = n
    /\ \A k \in 1..n : equity_curve[k].time = Bar(cfg.warmup_bars + k - 1).time

\* C6: one equity point per processed bar, in bar order: while bar i is being
\* processed the curve covers bars warmup .. i-1, and after the loop it covers
\* bars warmup .. N-1.
C6_OneEquityPointPerBar ==
    /\ pc \in {"update", "signal", "request", "record"} =>
          EquityCovers(i - cfg.warmup_bars)
    /\ pc \in {"final", "done"} => EquityCovers(Len(bars) - cfg.warmup_bars)

\* C6 witness: a finished run over three processed bars, with a trade closed
\* and with a bar on which no position was open.
C6_Witness ==
    /\ pc = "done"
    /\ Len(equity_curve) = 3
    /\ Len(trades) >= 1
    /\ \E k \in 1..3 : equity_curve[k].unrealized_pnl = 0

\* C7: a permanently failing oracle call does not fail the run: run() is
\* never ended by the request's exception.
C7_OracleFailureIsNoSignal ==
    ~(pc = "failed" /\ error = "RequestException")

(***************************************************************************)
(* Properties of the legacy loop and the event-driven engine (SpecEvent)   *)
(***************************************************************************)

\* The comparison of validate_event_loop.compare_results on the trades of
\* two results: same number of trades and, trade by trade, same direction,
\* same entry time and the same net result (the tolerance of 0.01 pip is
\* below the tenth of a pip the results are counted in).
trades_match(legacy, event) ==
    /\ Len(legacy) = Len(event)
    /\ \A k \in 1..Len(legacy) :
          /\ legacy[k].direction = event[k].direction
          /\ legacy[k].entry_time = event[k].entry_time
          /\ legacy[k].pnl_after_costs = event[k].pnl_after_costs

\* C11: in legacy-parity mode (OHLC_INTRABAR exits, full close at the first
\* TP) the event-driven engine fed by the open-prices tick generator returns
\* the same trades as the legacy run_backtest on the same candles and
\* parameters: as many, and each with the same direction, entry time and net
\* result after costs.
C11_EventEngineRefinesLegacy ==
    (pc = "done" /\ LegacyParity(cfg))
        => trades_match(legacy_results(trades), broker_state.closed_trades)

\* C12: once a run has returned, a position that was still open when the
\* loop ended has been closed and is among the trades the run returns, and
\* no position is left open: the legacy run returns every trade it opened,
\* none marked as still open, and the event-driven broker holds no open
\* position.
C12_NoPositionLeftOpen ==
    /\ pc \in {"event", "done"} =>
          /\ legacy_results(trades) = trades
          /\ IsSome(open_trade) => Val(open_trade).status \in {"win", "loss"}
    /\ pc = "done" => broker_state.open_positions = << >>

(***************************************************************************)
(* Properties of the engine run (Spec), continued                          *)
(***************************************************************************)

\* C13: under the default fill policy (fill_at = "next_open") a setup
\* accepted on the signal of bar i opens its position at the open of bar
\* i + 1, moved by the slippage, with the time of bar i + 1 as entry time:
\* bar i + 1 exists, and the entry is neither bar i's nor a later bar's.
C13_FillAtNextOpen ==
    [][(/\ pc = "request"
        /\ cfg.fill_at = "next_open"
        /\ open_trade' # open_trade)
       => /\ i + 1 < Len(bars)
          /\ IsSome(open_trade')
          /\ Val(open_trade').entry_time = Bar(i + 1).time
          /\ Val(open_trade').entry_time # Bar(i).time
          /\ Val(open_trade').entry_price =
                 IF Val(open_trade').direction = "BUY"
                 THEN Bar(i + 1).open + broker.slippage_pips
                 ELSE Bar(i + 1).open - broker.slippage_pips]_vars

\* A position just opened under "next_open" from the signal of bar i, where
\* bar i + 1 opens away from bar i's close.
C13_Witness ==
    /\ pc = "record"
    /\ cfg.fill_at = "next_open"
    /\ i + 1 < Len(bars)
    /\ IsSome(open_trade)
    /\ Val(open_trade).entry_time = Bar(i + 1).time
    /\ Bar(i + 1).open # Bar(i).close
    /\ Val(open_trade).direction = "BUY"
    /\ Val(open_trade).entry_price = Bar(i + 1).open + broker.slippage_pips

\* The gross result, in tenths of a pip, of the fills of a trade: each fill
\* counts its volume times its signed pip distance from the entry; with
\* costed, the exit costs are taken off each fill's price first.
RECURSIVE deals_pips(_, _, _)
deals_pips(trade, deals, costed) ==
    IF deals = << >> THEN 0
    ELSE Head(deals).volume
             * signed_pips(trade, IF costed
                                  THEN apply_exit_costs(trade, Head(deals).price)
                                  ELSE Head(deals).price)
         + deals_pips(trade, Tail(deals), costed)

\* C14: the realized result of a closed position is the sum of the results
\* of its exit legs: every fill that took volume off the position, a TP leg
\* filled before a later stop-out included, counts with its own volume and
\* price (with or without the exit costs in the leg's price), and the net
\* result is that sum less one commission side per leg and the entry's.
C14_TotalIsSumOfLegs ==
    \A k \in 1..Len(broker_state.closed_trades) :
       LET trade == broker_state.closed_trades[k]
       IN /\ trade.pnl_pips \in {deals_pips(trade, trade.deals, TRUE),
                                 deals_pips(trade, trade.deals, FALSE)}
          /\ trade.pnl_after_costs =
                 after_commission(trade, trade.pnl_pips, Len(trade.deals),
                                  cfg.usd_per_pip_per_lot)

(***************************************************************************)
(* Properties of the broker simulator (SpecBroker), continued              *)
(***************************************************************************)

\* The results of the exit legs as the cost model states them: each leg's
\* gross result (signed pip distance times lots times USD per pip) less the
\* exit commission on the lots the leg closes.
RECURSIVE legs_net_of_commission(_, _)
legs_net_of_commission(b, legs) ==
    IF legs = << >> THEN 0
    ELSE Head(legs).gross - b.commission_per_side_per_lot * Head(legs).lots
         + legs_net_of_commission(b, Tail(legs))

\* C15: the net result of a closed position is the sum over its exit legs
\* of (signed pip distance x lots closed x USD per pip - the leg's exit
\* commission), less the entry commission, which is charged exactly once.
C15_NetPnlChargesEntryCommissionOnce ==
    is_closed(Val(open_trade)) =>
        Val(open_trade).net_pnl_usd
            = legs_net_of_commission(broker, Val(open_trade).legs)
              - broker.commission_per_side_per_lot * Val(open_trade).lot_size

(***************************************************************************)
(* Properties of the event-driven engine (SpecEvent), continued            *)
(***************************************************************************)

\* The trades of the event-driven broker, closed or still in a position.
broker_trades ==
    {broker_state.closed_trades[k] : k \in 1..Len(broker_state.closed_trades)}
    \cup {broker_state.open_positions[k].trade :
              k \in 1..Len(broker_state.open_positions)}

\* C16: with partial take-profits, a bar that crosses several TP levels not
\* yet hit, and not the stop, fills every one of them on that bar, each with
\* its own portion: when a level is filled on a bar, every level nearer to
\* the entry, which the same bar crosses as well, has its own fill on that
\* bar or an earlier one; none is left for a later bar.
C16_AllCrossedLevelsFillOnTheBar ==
    cfg.tp_model = "partial_tps" =>
        \A trade \in broker_trades :
           \A k \in 1..Len(trade.deals) :
              trade.deals[k].hit \in {2, 3} =>
                 \A level \in 1..(trade.deals[k].hit - 1) :
                    \E j \in 1..Len(trade.deals) :
                       /\ trade.deals[j].hit = level
                       /\ trade.deals[j].time <= trade.deals[k].time
                       /\ trade.deals[j].volume =
                              get_tp_allocations(cfg.tp_model)[level]

\* The price lies strictly between the stop and the first target of a trade.
strictly_inside(trade, price) ==
    IF trade.direction = "BUY"
    THEN trade.sl < price /\ price < trade.tp1
    ELSE trade.tp1 < price /\ price < trade.sl

\* The candle's range reaches the stop or the first target of a trade.
range_reaches(trade, bar) ==
    IF trade.direction = "BUY"
    THEN bar.low <= trade.sl \/ bar.high >= trade.tp1
    ELSE bar.high >= trade.sl \/ bar.low <= trade.tp1

\* C17: under OPEN_ONLY exit semantics a tick is evaluated on the bar's
\* open alone: a position whose bar opens strictly between its stop and its
\* first target comes out of the tick as it went in, neither closed nor
\* partially closed, whatever the bar's high and low.
C17_OpenOnlyIgnoresRange ==
    [][(/\ pc = "event"
        /\ last_bar_index' # last_bar_index
        /\ cfg.exit_semantics = "open_only")
       => \A k \in 1..Len(broker_state.open_positions) :
             strictly_inside(broker_state.open_positions[k].trade,
                             bars[NextTickIndex + 1].open)
             => \E j \in 1..Len(broker_state'.open_positions) :
                   broker_state'.open_positions[j] = broker_state.open_positions[k]]_vars

\* An OPEN_ONLY position, untouched after the tick of a bar that opened
\* strictly inside its levels and whose range reached one of them.
C17_Witness ==
    /\ pc = "event"
    /\ cfg.exit_semantics = "open_only"
    /\ last_bar_index >= 0
    /\ \E k \in 1..Len(broker_state.open_positions) :
          LET p == broker_state.open_positions[k]
              bar == bars[last_bar_index + 1]
          IN /\ p.trade.entry_time < bar.time
             /\ strictly_inside(p.trade, bar.open)
             /\ range_reaches(p.trade, bar)
             /\ p.remaining_volume = 10
             /\ p.tp_levels_hit = << >>
             /\ p.trade.status = "open"

\* C18: under OHLC_INTRABAR exit semantics a position filled at the open
\* of a bar whose range reaches its stop or a target is exited on that same
\* bar: it has a fill whose time is the time of its entry bar (the candle
\* of time t is bars[t]).
C18_SameBarExit ==
    cfg.exit_semantics = "ohlc_intrabar" =>
        \A trade \in broker_trades :
           range_reaches(trade, bars[trade.entry_time])
           => \E k \in 1..Len(trade.deals) :
                 trade.deals[k].time = trade.entry_time

(***************************************************************************)
(* Properties of the engine run (Spec), continued                          *)
(***************************************************************************)

\* The stop and the targets of a trade stand in the order of its direction
\* (BUY: sl < tp1 < tp2 < tp3, SELL: the reverse): the part of the ordering
\* of a setup that the trade carries whatever price it was filled at.
levels_ordered(t) ==
    IF t.direction = "BUY"
    THEN t.sl < t.tp1 /\ t.tp1 < t.tp2 /\ t.tp2 < t.tp3
    ELSE t.tp3 < t.tp2 /\ t.tp2 < t.tp1 /\ t.tp1 < t.sl

\* C19: a setup whose levels violate the ordering (BUY: stop < entry < TP1
\* < TP2 < TP3, SELL: the reverse) never becomes a position: every position
\* the engine holds or has closed carries a stop and targets in the order of
\* its direction.
C19_MisorderedSetupNeverOpens ==
    /\ IsSome(open_trade) => levels_ordered(Val(open_trade))
    /\ \A k \in 1..Len(trades) : levels_ordered(trades[k])

\* C20: a request to the endpoint ends after at most api_max_retries
\* attempts.  It starts with attempt 0; a successful attempt returns at once
\* and leaves the attempt count and the sleeps as they are; a failed attempt
\* k that is not the last sleeps api_retry_delay * 2^k and starts attempt
\* k + 1, which is still below api_max_retries; the last failed attempt,
\* k = api_max_retries - 1, raises the exception without sleeping.
C20_BoundedRetriesWithBackoff ==
    [][/\ (pc = "signal" /\ pc' = "request") => (attempt' = 0 /\ delays' = << >>)
       /\ pc = "request" =>
             /\ pc' = "record" =>
                   /\ attempt < cfg.api_max_retries
                   /\ attempt' = attempt
                   /\ delays' = delays
             /\ pc' = "request" =>
                   /\ attempt' = attempt + 1
                   /\ attempt' < cfg.api_max_retries
                   /\ delays' = Append(delays, cfg.api_retry_delay * (2 ^ attempt))
             /\ (pc' = "failed" /\ error' = "RequestException") =>
                   /\ attempt = cfg.api_max_retries - 1
                   /\ attempt' = attempt
                   /\ delays' = delays
             /\ pc' \in {"record", "request", "failed"}
             /\ Len(delays') = attempt']_vars

\* A request that succeeded on its third attempt, after sleeps of one and two
\* delays.
C20_Witness ==
    /\ pc = "record"
    /\ cfg.api_max_retries = 3
    /\ attempt = 2
    /\ delays = <<cfg.api_retry_delay, 2 * cfg.api_retry_delay>>
    /\ error = "None"

(***************************************************************************)
(* One backtest made twice: cli.py builds a BacktestEngine and calls run() *)
(* (cli.py 245-255); made again with the same configuration and the same   *)
(* bars, against an endpoint that gives the same answers, it builds a new  *)
(* engine.  responses[k] is the answer of the endpoint to the request made *)
(* at bar k - 1: the attempts that fail before it, and the signal.         *)
(***************************************************************************)

\* The runs made of one backtest.
Runs == 2

\* What the endpoint does with the request of one bar: failures attempts
\* fail with a RequestException, the next one returns signal.
Answers == [failures : {0, 1}, signal : {HoldSignal, BuySignal, SellSignal}]

\* The answers to the requests of a series of n bars.
ResponsesOfLen(n) == [1..n -> Answers]

\* What run() returns of the engine's state (_compute_results, lines 398-405).
run_results(ts, curve) == [trades |-> ts, equity_curve |-> curve]

InitRerun ==
    /\ cfg \in {c \in Configs : /\ c.lot_size = RunLotSize
                                /\ c.api_max_retries = MaxRetries
                                /\ c.use_optimized_mode}
    /\ broker = RunBroker
    /\ source \in {s \in SeriesOfLen(NBars) :
                      \A k \in 1..cfg.warmup_bars : s[k].low = BuySignal.entry}
    /\ bars = << >>
    /\ pc = "init"
    /\ i = 0
    /\ open_trade = None
    /\ trades = << >>
    /\ balance = cfg.initial_balance_usd
    /\ equity_curve = << >>
    /\ attempt = 0
    /\ delays = << >>
    /\ last_request = None
    /\ last_op = None
    /\ error = "None"
    /\ NoOrchestrator
    /\ NoEventEngine
    /\ responses \in {r \in ResponsesOfLen(NBars) :
                         \A k \in 1..cfg.warmup_bars : r[k] = [failures |-> 0,
                                                               signal |-> HoldSignal]}
    /\ completed_runs = << >>
    /\ results = None
    /\ NoMonteCarlo
    /\ NoGridSearch

\* _request, lines 260-268, against the fixed answers: the attempt is one of
\* those that fail for this bar.
AnswerFails ==
    /\ AttemptFailsRetry
    /\ attempt < responses[i + 1].failures

\* _request, lines 239-258, against the fixed answers: the failures of this
\* bar are over and the endpoint returns its signal.
AnswerSucceeds ==
    /\ AttemptSucceeds
    /\ attempt = responses[i + 1].failures
    /\ open_trade' = IF responses[i + 1].signal.signal \in {"BUY", "SELL"}
                     THEN open_position(cfg, broker, bars, open_trade,
                                        responses[i + 1].signal, i)
                     ELSE open_trade

\* run() called a second time on the engine that has already run.
Rerun_same_engine ==
    /\ pc = "done"
    /\ Len(completed_runs) < Runs - 1
    /\ completed_runs' = Append(completed_runs, run_results(trades, equity_curve))
    /\ pc' = "init"
    /\ i' = 0
    /\ attempt' = 0
    /\ delays' = << >>
    /\ last_request' = None
    /\ last_op' = None
    /\ results' = None
    /\ UNCHANGED <<cfg, broker, source, bars, trades, open_trade, balance, equity_curve,
                   error, responses, orchVars, eventVars, mcVars, gridVars>>

\* run() has returned; the backtest is made again: BacktestEngine.__init__
\* (lines 49-66) with the same config, data source, API client and broker.
Rerun ==
    /\ pc = "done"
    /\ Len(completed_runs) < Runs - 1
    /\ completed_runs' = Append(completed_runs, run_results(trades, equity_curve))
    /\ bars' = << >>
    /\ trades' = << >>
    /\ open_trade' = None
    /\ balance' = cfg.initial_balance_usd
    /\ equity_curve' = << >>
    /\ pc' = "init"
    /\ i' = 0
    /\ attempt' = 0
    /\ delays' = << >>
    /\ last_request' = None
    /\ last_op' = None
    /\ results' = None
    /\ UNCHANGED <<cfg, broker, source, error, responses, orchVars, eventVars, mcVars, gridVars>>

NextRerun ==
    \/ LoadBars
    \/ UpdateOpenPosition
    \/ RequestSignal
    \/ SkipSignal
    \/ AnswerFails
    \/ AnswerSucceeds
    \/ RecordEquity
    \/ Finish
    \/ Rerun

SpecRerun == InitRerun /\ [][NextRerun]_vars

MaxTrades == 3
MaxNet == 2

\* The closed trades of a run, by their net results.
ClosedTrade(net) == [net_pnl_usd |-> net, pnl_after_costs |-> net]
TradeLists ==
    UNION {[1..n -> {ClosedTrade(x) : x \in -MaxNet..MaxNet}] : n \in 0..MaxTrades}

\* sum(t.pnl_after_costs for t in ts)
RECURSIVE sum_pnl_after_costs(_)
sum_pnl_after_costs(ts) ==
    IF ts = << >> THEN 0 ELSE ts[1].pnl_after_costs + sum_pnl_after_costs(Tail(ts))

\* run_backtest, lines 1152-1206: profit_factor and its two terms.
legacy_statistics(ts) ==
    LET profit_deals == SelectSeq(ts, LAMBDA t : t.pnl_after_costs > 0)
        loss_deals == SelectSeq(ts, LAMBDA t : t.pnl_after_costs < 0)
        gross_profit_pips == IF profit_deals # << >>
                             THEN sum_pnl_after_costs(profit_deals) ELSE 0
        gross_loss_pips == IF loss_deals # << >>
                           THEN -sum_pnl_after_costs(loss_deals) ELSE 0
    IN [by |-> "run_backtest",
        gross_profit |-> gross_profit_pips,
        gross_loss |-> gross_loss_pips,
        profit_factor |-> ProfitFactor(Len(ts), gross_profit_pips, gross_loss_pips)]

\* BacktestEngine._calculate_statistics of the event-driven engine, lines
\* 131-162, and _empty_results.
calculate_statistics(ts) ==
    LET winning_trades == SelectSeq(ts, LAMBDA t : t.pnl_after_costs > 0)
        losing_trades == SelectSeq(ts, LAMBDA t : t.pnl_after_costs < 0)
        wins == Len(winning_trades)
        losses == Len(losing_trades)
    IN [by |-> "_calculate_statistics",
        gross_profit |-> sum_pnl_after_costs(winning_trades),
        gross_loss |-> -sum_pnl_after_costs(losing_trades),
        profit_factor |->
            IF ts = << >> THEN [kind |-> "finite", num |-> 0, den |-> 1]
            ELSE IF losses > 0 /\ sum_pnl_after_costs(losing_trades) # 0
            THEN [kind |-> "finite", num |-> sum_pnl_after_costs(winning_trades),
                  den |-> -sum_pnl_after_costs(losing_trades)]
            ELSE IF wins > 0 THEN [kind |-> "inf", num |-> 0, den |-> 1]
            ELSE [kind |-> "finite", num |-> 0, den |-> 1]]

\* A run that has closed the trades of a list and is about to report.
InitStatistics ==
    /\ cfg \in {c \in Configs : /\ c.lot_size = RunLotSize
                                /\ c.api_max_retries = MaxRetries
                                /\ c.use_optimized_mode
                                /\ c.fill_at = "next_open"}
    /\ broker = RunBroker
    /\ source = << >>
    /\ bars = << >>
    /\ pc = "final"
    /\ i = 0
    /\ open_trade = None
    /\ trades \in TradeLists
    /\ balance = cfg.initial_balance_usd + sum_net_pnl_usd(trades)
    /\ equity_curve = << >>
    /\ attempt = 0
    /\ delays = << >>
    /\ last_request = None
    /\ last_op = None
    /\ error = "None"
    /\ NoOrchestrator
    /\ NoEventEngine
    /\ NoRerun
    /\ NoMonteCarlo
    /\ NoGridSearch
    /\ results = None

\* The variables the statistics leave alone.
statisticsIdle == <<cfg, broker, source, bars, i, open_trade, trades, balance,
                    equity_curve, attempt, delays, last_request, last_op, error,
                    orchVars, eventVars, rerunVars, mcVars, gridVars>>

\* run(), line 147 of the package engine.
ComputeResults ==
    /\ pc = "final"
    /\ pc' = "done"
    /\ results' = Some([by |-> "_compute_results",
                        gross_profit |-> compute_results(cfg, trades, equity_curve,
                                                         balance).gross_profit_usd,
                        gross_loss |-> compute_results(cfg, trades, equity_curve,
                                                       balance).gross_loss_usd,
                        profit_factor |-> compute_results(cfg, trades, equity_curve,
                                                          balance).profit_factor])
    /\ UNCHANGED statisticsIdle

\* run_backtest after its bar loop.
LegacyStatistics ==
    /\ pc = "final"
    /\ pc' = "done"
    /\ results' = Some(legacy_statistics(trades))
    /\ UNCHANGED statisticsIdle

\* BacktestEngine.run of the event-driven engine, line 117.
CalculateStatistics ==
    /\ pc = "final"
    /\ pc' = "done"
    /\ results' = Some(calculate_statistics(trades))
    /\ UNCHANGED statisticsIdle

NextStatistics ==
    \/ ComputeResults
    \/ LegacyStatistics
    \/ CalculateStatistics

SpecStatistics == InitStatistics /\ [][NextStatistics]_vars

\* C22: the reported profit factor is gross_profit / gross_loss when
\* gross_loss > 0, +inf when gross_loss = 0 and gross_profit > 0, and 0 when
\* both are zero, with no trades or with trades that all net exactly zero.
C22_ProfitFactorCases ==
    IsSome(results) =>
        LET r == Val(results)
        IN IF r.gross_loss > 0
           THEN r.profit_factor = [kind |-> "finite", num |-> r.gross_profit,
                                   den |-> r.gross_loss]
           ELSE IF r.gross_profit > 0
           THEN r.profit_factor.kind = "inf"
           ELSE r.profit_factor.kind = "finite" /\ r.profit_factor.num = 0

(***************************************************************************)
(* The engine on candle data as the data source returns it: _load_csv and  *)
(* _load_parquet sort the rows by time and check the columns, nothing      *)
(* else, so a series comes back in time order but may hold two rows with   *)
(* the same timestamp, and may be shorter than warmup_bars.                *)
(***************************************************************************)

\* n candles in time order; with d > 0 candle d + 1 repeats the timestamp of
\* candle d.
LoadedSeriesOfLen(n) ==
    LET shapes == [1..n -> BarShapes]
    IN {[k \in 1..n |-> MkBar(IF d > 0 /\ k > d THEN k - 1 ELSE k, f[k][1], f[k][2])] :
           f \in shapes, d \in 0..Max(n - 1, 0)}

LoadedSeries == UNION {LoadedSeriesOfLen(n) : n \in 0..NBars}

\* Rule 3 of normalize_and_validate_bars: every timestamp is greater than
\* the one before it.
strictly_increasing(bs) ==
    \A k \in 2..Len(bs) : bs[k].time > bs[k - 1].time

InitCandleData ==
    /\ cfg \in {c \in Configs : /\ c.lot_size = RunLotSize
                                /\ c.use_optimized_mode
                                /\ c.fill_at = "next_open"}
    /\ broker = RunBroker
    /\ source \in LoadedSeries
    /\ bars = << >>
    /\ pc = "init"
    /\ i = 0
    /\ open_trade = None
    /\ trades = << >>
    /\ balance = cfg.initial_balance_usd
    /\ equity_curve = << >>
    /\ attempt = 0
    /\ delays = << >>
    /\ last_request = None
    /\ last_op = None
    /\ error = "None"
    /\ NoOrchestrator
    /\ NoEventEngine
    /\ NoRerun
    /\ NoMonteCarlo
    /\ NoGridSearch
    /\ results = None

SpecCandleData == InitCandleData /\ [][Next]_vars

\* C23: a run on candle data that is too short or whose timestamps are not
\* strictly increasing fails before its first bar: no request is made to the
\* oracle, no position is opened and no equity point is recorded.
C23_FailsBeforeFirstBar ==
    (Len(source) < cfg.warmup_bars \/ ~strictly_increasing(source))
        => /\ pc \in {"init", "failed"}
           /\ IsNone(last_request)
           /\ IsNone(open_trade)
           /\ equity_curve = << >>

\* What a call on the trade t may do to it once t is closed, and what the TP
\* checks of one update_trade call may do once one of them has closed it.
closed_stays(t, op, after) ==
    /\ is_closed(t) => after = t
    /\ (op.op = "update" /\ ~is_closed(t) /\ ~sl_condition(t, op.high, op.low))
           => \A n \in 0..2 :
                 is_closed(tp_checks(broker, t, op.time, op.high, op.low, n))
                     => after = tp_checks(broker, t, op.time, op.high, op.low, n)

\* C24: once a position is closed, no bar update, take-profit check,
\* stop-loss check or forced close changes any of its fields.
C24_ClosedIsTerminal ==
    [][(i' = i + 1 /\ IsSome(open_trade) /\ IsSome(open_trade') /\ IsSome(last_op'))
           => closed_stays(Val(open_trade), Val(last_op'), Val(open_trade'))]_vars

(***************************************************************************)
(* monte_carlo_reshuffle of tests/backtest.py: the net results of the      *)
(* trades of a test period are put in a random order n_simulations times;  *)
(* each order gives a maximum drawdown and a final P&L.  A random order is *)
(* any permutation of the list.  Results are in tenths of a pip;           *)
(* mc_median_max_dd is kept as twice the median, and a probability as the  *)
(* count it divides by n_simulations.                                      *)
(***************************************************************************)

\* n_simulations
NSimulations == 3

\* The net results a trade can have.
PnlValues == {-2, -1, 1, 2, 3}

\* The trade lists the reshuffle is given.
PnlLists == UNION {[1..n -> PnlValues] : n \in 0..MaxTrades}

\* np.random.permutation(pnl_list): the orders it can return.
permutations(xs) ==
    {[k \in 1..Len(xs) |-> xs[f[k]]] :
        f \in {g \in [1..Len(xs) -> 1..Len(xs)] :
                  \A a, b \in 1..Len(xs) : a # b => g[a] # g[b]}}

\* np.cumsum
RECURSIVE cumsum_from(_, _)
cumsum_from(xs, start) ==
    IF xs = << >> THEN << >>
    ELSE <<start + xs[1]>> \o cumsum_from(Tail(xs), start + xs[1])

cumsum(xs) == cumsum_from(xs, 0)

\* The drawdown loop of monte_carlo_reshuffle (lines 646-654) and of
\* run_backtest (lines 1272-1280): the largest fall below the running peak,
\* the peak starting at the first value.
RECURSIVE drawdown_loop(_, _, _)
drawdown_loop(curve, peak, max_dd) ==
    IF curve = << >> THEN max_dd
    ELSE LET new_peak == IF curve[1] > peak THEN curve[1] ELSE peak
             dd == new_peak - curve[1]
         IN drawdown_loop(Tail(curve), new_peak, IF dd > max_dd THEN dd ELSE max_dd)

\* The drawdown measured from the last value of the curve instead of the
\* running peak.
simulated_max_dd_from_last(curve) ==
    drawdown_loop(curve, curve[Len(curve)], 0)

simulated_max_dd(curve) ==
    IF curve = << >> THEN 0 ELSE drawdown_loop(curve, curve[1], 0)

\* test_result['max_drawdown'] of run_backtest for the trades in their
\* chronological order: the observed_max_dd the reshuffle is called with.
observed_max_dd(pnl) == simulated_max_dd(cumsum(pnl))

\* sorted(xs)
RECURSIVE sorted_insert(_, _)
sorted_insert(x, xs) ==
    IF xs = << >> THEN <<x>>
    ELSE IF x <= xs[1] THEN <<x>> \o xs
    ELSE <<xs[1]>> \o sorted_insert(x, Tail(xs))

RECURSIVE sorted(_)
sorted(xs) == IF xs = << >> THEN << >> ELSE sorted_insert(xs[1], sorted(Tail(xs)))

\* Twice np.median(xs) of a non-empty xs.
twice_median(xs) ==
    LET s == sorted(xs)
        n == Len(xs)
    IN IF n % 2 = 1 THEN 2 * s[(n + 1) \div 2] ELSE s[n \div 2] + s[n \div 2 + 1]

\* The statistics monte_carlo_reshuffle returns (lines 663-676).
mc_statistics(dds, finals, observed) ==
    [mc_median_max_dd_twice |-> twice_median(dds),
     mc_max_max_dd |-> sorted(dds)[Len(dds)],
     mc_prob_loss_count |-> Len(SelectSeq(finals, LAMBDA x : x < 0)),
     mc_prob_dd_exceeds_observed_count |-> Len(SelectSeq(dds, LAMBDA x : x > observed))]

\* The result for an empty trade list (lines 625-632).
mc_empty ==
    [mc_median_max_dd_twice |-> 0, mc_max_max_dd |-> 0, mc_prob_loss_count |-> 0,
     mc_prob_dd_exceeds_observed_count |-> 0]

InitMonteCarlo ==
    /\ cfg \in {c \in Configs : /\ c.lot_size = RunLotSize
                                /\ c.api_max_retries = MaxRetries
                                /\ c.use_optimized_mode
                                /\ c.fill_at = "next_open"}
    /\ broker = RunBroker
    /\ source = << >>
    /\ bars = << >>
    /\ pc = "reshuffle"
    /\ i = 0
    /\ open_trade = None
    /\ trades = << >>
    /\ balance = cfg.initial_balance_usd
    /\ equity_curve = << >>
    /\ attempt = 0
    /\ delays = << >>
    /\ last_request = None
    /\ last_op = None
    /\ error = "None"
    /\ NoOrchestrator
    /\ NoEventEngine
    /\ NoRerun
    /\ results = None
    /\ NoGridSearch
    /\ pnl_list \in PnlLists
    /\ max_drawdowns = << >>
    /\ final_pnls = << >>
    /\ mc_results = None

\* The variables monte_carlo_reshuffle leaves alone.
monteCarloIdle == <<cfg, broker, source, bars, i, open_trade, trades, balance,
                    equity_curve, attempt, delays, last_request, last_op, error,
                    orchVars, eventVars, rerunVars, results, pnl_list, gridVars>>

\* Lines 625-632: nothing to shuffle.
ReturnEmpty ==
    /\ pc = "reshuffle"
    /\ Len(pnl_list) = 0
    /\ mc_results' = Some(mc_empty)
    /\ pc' = "done"
    /\ UNCHANGED <<monteCarloIdle, max_drawdowns, final_pnls>>

\* One pass of the simulation loop (lines 639-657).
Simulate ==
    /\ pc = "reshuffle"
    /\ Len(pnl_list) # 0
    /\ Len(max_drawdowns) < NSimulations
    /\ \E shuffled_pnl \in permutations(pnl_list) :
          /\ max_drawdowns' = Append(max_drawdowns, simulated_max_dd(cumsum(shuffled_pnl)))
          /\ final_pnls' = Append(final_pnls, cumsum(shuffled_pnl)[Len(shuffled_pnl)])
    /\ UNCHANGED <<monteCarloIdle, pc, mc_results>>

\* Lines 659-676: the statistics of the simulations.
ReturnStatistics ==
    /\ pc = "reshuffle"
    /\ Len(pnl_list) # 0
    /\ Len(max_drawdowns) = NSimulations
    /\ mc_results' = Some(mc_statistics(max_drawdowns, final_pnls,
                                        observed_max_dd(pnl_list)))
    /\ pc' = "done"
    /\ UNCHANGED <<monteCarloIdle, max_drawdowns, final_pnls>>

NextMonteCarlo ==
    \/ ReturnEmpty
    \/ Simulate
    \/ ReturnStatistics

SpecMonteCarlo == InitMonteCarlo /\ [][NextMonteCarlo]_vars

\* C25: for a trade list whose net results are all positive, every
\* reshuffle ends with a final P&L that is not negative and a maximum
\* drawdown no greater than the observed one; the reported probability of a
\* final loss is 0 and the median simulated drawdown is at most the observed
\* drawdown.
C25_AllWinningReshuffle ==
    (\A k \in 1..Len(pnl_list) : pnl_list[k] > 0)
        => /\ \A k \in 1..Len(final_pnls) : final_pnls[k] >= 0
           /\ \A k \in 1..Len(max_drawdowns) :
                 max_drawdowns[k] <= observed_max_dd(pnl_list)
           /\ IsSome(mc_results)
                 => /\ Val(mc_results).mc_prob_loss_count = 0
                    /\ Val(mc_results).mc_median_max_dd_twice
                           <= 2 * observed_max_dd(pnl_list)

\* The statistics of NSimulations reshuffles of a list of at least two
\* different winning trades.
C25_Witness ==
    /\ IsSome(mc_results)
    /\ Len(max_drawdowns) = NSimulations
    /\ Len(pnl_list) >= 2
    /\ \A k \in 1..Len(pnl_list) : pnl_list[k] > 0
    /\ \E a, b \in 1..Len(pnl_list) : pnl_list[a] # pnl_list[b]

\* C26: under the FULL_CLOSE_AT_FIRST_TP model no closed trade records
\* TP2 or TP3 among the levels it hit (tp2_hits and tp3_hits of the run
\* statistics are 0): every take-profit exit is a full close at TP1.
C26_FullCloseOnlyAtTp1 ==
    cfg.tp_model = "full_close_first_tp" =>
        \A k \in 1..Len(broker_state.closed_trades) :
           /\ 2 \notin LevelsOf(broker_state.closed_trades[k].tp_levels_hit)
           /\ 3 \notin LevelsOf(broker_state.closed_trades[k].tp_levels_hit)

\* C27: at every equity point and at the end of the run the balance is the
\* initial balance plus the sum of net_pnl_usd of the trades in the trade
\* list (the balance of an equity point is the balance of that moment), and
\* a closed trade is in the trade list once.
C27_BalanceIsInitialPlusTrades ==
    /\ balance = cfg.initial_balance_usd + sum_net_pnl_usd(trades)
    /\ (pc \in {"update", "final"} /\ equity_curve # << >>)
          => equity_curve[Len(equity_curve)].balance
                 = cfg.initial_balance_usd + sum_net_pnl_usd(trades)
    /\ \A j, k \in 1..Len(trades) : j # k => trades[j] # trades[k]
    /\ \A k \in 1..Len(trades) : is_closed(trades[k])

\* C27, the step: the trade list only grows, by one trade at a time, and the
\* balance moves exactly when it does, by that trade's net_pnl_usd.
C27_FinalizedOnce ==
    [][IF trades' # trades
       THEN /\ Len(trades') = Len(trades) + 1
            /\ SubSeq(trades', 1, Len(trades)) = trades
            /\ is_closed(trades'[Len(trades')])
            /\ balance' = balance + trades'[Len(trades')].net_pnl_usd
       ELSE balance' = balance]_vars

\* A finished run with two trades, the second one closed by force at the
\* last bar, and an equity point recorded after the first.
C27_Witness ==
    /\ pc = "done"
    /\ Len(trades) >= 2
    /\ trades[Len(trades)].exit_reason = "MANUAL"
    /\ trades[1].net_pnl_usd # 0
    /\ equity_curve # << >>
    /\ equity_curve[Len(equity_curve)].balance
           = cfg.initial_balance_usd + trades[1].net_pnl_usd

\* A finished run in which a trade was closed during the run.
C27_StepWitness ==
    /\ pc = "done"
    /\ Len(trades) >= 1
    /\ trades[1].exit_reason # "MANUAL"
    /\ balance # cfg.initial_balance_usd

\* C28: when a run returns, the equity of the last recorded equity point is
\* the reported final_balance: the equity curve, from which the maximum
\* drawdown is computed, holds every realized result, that of a position
\* closed by force at the end of the run included.
C28_LastEquityIsFinalBalance ==
    (pc = "done" /\ IsSome(results) /\ equity_curve # << >>)
        => equity_curve[Len(equity_curve)].equity = Val(results).final_balance

(***************************************************************************)
(* GridSearchEngine.run of grid_search.py: every combination of the grid   *)
(* is evaluated, one after the other when n_jobs is 1 and by a pool of     *)
(* worker processes otherwise; the results are sorted by the objective and *)
(* the first one is the best.  What the evaluation of a combination        *)
(* returns is fixed at the start; a combination stands for its place in    *)
(* the list _generate_combinations returns.                                *)
(***************************************************************************)

\* The number of combinations of the grid.
NCombinations == 3

\* The values the objective metric of a result can have.
ObjectiveValues == {0, 1, 2}

\* What _evaluate_combination returns for combination k: a result
\* dictionary, or None when the evaluation failed.
WorkerResults ==
    [1..NCombinations ->
        {None} \cup {Some([params |-> 0, metrics |-> v]) : v \in ObjectiveValues}]

\* _sort_results, get_objective_value
get_objective_value(result) == result.metrics

\* sorted(results, key=get_objective_value, reverse=True): results with the
\* same key keep the order they had in the list.
RECURSIVE insert_result(_, _)
insert_result(x, rest) ==
    IF rest = << >> THEN <<x>>
    ELSE IF get_objective_value(rest[1]) > get_objective_value(x)
    THEN <<rest[1]>> \o insert_result(x, Tail(rest))
    ELSE <<x>> \o rest

RECURSIVE sort_results(_)
sort_results(rs) ==
    IF rs = << >> THEN << >> ELSE insert_result(rs[1], sort_results(Tail(rs)))

\* The result the evaluation of combination k returns, with its parameters.
result_of(table, k) == [Val(table[k]) EXCEPT !.params = k]

\* _run_sequential: the results of the combinations in the order of the grid.
RECURSIVE run_sequential(_, _)
run_sequential(table, k) ==
    IF k > Len(table) THEN << >>
    ELSE (IF IsSome(table[k]) THEN <<result_of(table, k)>> ELSE << >>)
         \o run_sequential(table, k + 1)

\* GridSearchEngine.run, lines 85-88: the best result of a list of results.
select_best(rs) ==
    IF sort_results(rs) # << >> THEN Some(sort_results(rs)[1]) ELSE None

InitGridSearch ==
    /\ cfg \in {c \in Configs : /\ c.lot_size = RunLotSize
                                /\ c.api_max_retries = MaxRetries
                                /\ c.use_optimized_mode
                                /\ c.fill_at = "next_open"}
    /\ broker = RunBroker
    /\ source = << >>
    /\ bars = << >>
    /\ pc = "grid_search"
    /\ i = 0
    /\ open_trade = None
    /\ trades = << >>
    /\ balance = cfg.initial_balance_usd
    /\ equity_curve = << >>
    /\ attempt = 0
    /\ delays = << >>
    /\ last_request = None
    /\ last_op = None
    /\ error = "None"
    /\ NoOrchestrator
    /\ NoEventEngine
    /\ NoRerun
    /\ NoMonteCarlo
    /\ results = None
    /\ n_jobs \in {1, 2}
    /\ worker_results \in WorkerResults
    /\ futures = 1..NCombinations
    /\ results_list = << >>
    /\ best_result = None

\* The variables GridSearchEngine.run leaves alone.
gridSearchIdle == <<cfg, broker, source, bars, i, open_trade, trades, balance,
                    equity_curve, attempt, delays, last_request, last_op, error,
                    orchVars, eventVars, rerunVars, results, mcVars, n_jobs,
                    worker_results>>

\* _run_sequential, one pass of the loop: the next combination of the grid
\* is evaluated and its result, if there is one, appended.
EvaluateCombination ==
    /\ pc = "grid_search"
    /\ n_jobs = 1
    /\ futures # {}
    /\ LET k == CHOOSE x \in futures : \A y \in futures : x <= y
       IN /\ results_list' = IF IsSome(worker_results[k])
                             THEN Append(results_list, result_of(worker_results, k))
                             ELSE results_list
          /\ futures' = futures \ {k}
    /\ UNCHANGED <<gridSearchIdle, pc, best_result>>

\* _run_parallel, one pass of the loop over as_completed(futures): any of
\* the submitted evaluations is the next to complete.
CollectCompleted ==
    /\ pc = "grid_search"
    /\ n_jobs # 1
    /\ \E k \in futures :
          /\ results_list' = IF IsSome(worker_results[k])
                             THEN Append(results_list, result_of(worker_results, k))
                             ELSE results_list
          /\ futures' = futures \ {k}
    /\ UNCHANGED <<gridSearchIdle, pc, best_result>>

\* GridSearchEngine.run, lines 84-88: the results are sorted and the first
\* one is the best.
SortAndSelect ==
    /\ pc = "grid_search"
    /\ futures = {}
    /\ results_list' = sort_results(results_list)
    /\ best_result' = select_best(results_list)
    /\ pc' = "done"
    /\ UNCHANGED <<gridSearchIdle, futures>>

NextGridSearch ==
    \/ EvaluateCombination
    \/ CollectCompleted
    \/ SortAndSelect

SpecGridSearch == InitGridSearch /\ [][NextGridSearch]_vars

\* C29: the best combination of a grid search does not depend on the order
\* in which the workers complete: whatever the per-combination results,
\* every completion order of the pool selects the best combination the
\* sequential path selects.
C29_BestIndependentOfCompletionOrder ==
    pc = "done" => best_result = select_best(run_sequential(worker_results, 1))

\* The objective values of the results that did not fail are all different.
no_ties(table) ==
    \A j, k \in 1..Len(table) :
       (j # k /\ IsSome(table[j]) /\ IsSome(table[k]))
           => Val(table[j]).metrics # Val(table[k]).metrics

\* C29 for results that do not tie on the objective.
C29_BestWithoutTies ==
    (pc = "done" /\ no_ties(worker_results))
        => best_result = select_best(run_sequential(worker_results, 1))

\* A parallel search of three different results, collected in another order
\* than the grid's.
C29_WitnessWithoutTies ==
    /\ pc = "done"
    /\ n_jobs # 1
    /\ no_ties(worker_results)
    /\ \A k \in 1..NCombinations : IsSome(worker_results[k])
    /\ worker_results[NCombinations] = Some([params |-> 0, metrics |-> 2])
    /\ IsSome(best_result)

\* C30: the last statement of _request, raise RuntimeError("Unexpected
\* code path in _request"), is never reached: for every max_retries the
\* configuration accepts, a call returns a response or raises the request
\* exception of its last attempt.
C30_RequestNeverFallsThrough ==
    error # "RuntimeError"

\* C30 for a max_retries of at least 1.
C30_FallsThroughOnlyWithoutAttempts ==
    error = "RuntimeError" => cfg.api_max_retries = 0

\* A call that raised the request exception of its last attempt, after
\* every retry a max_retries of more than 1 allows.
C30_WitnessLastAttemptRaises ==
    /\ error = "RequestException"
    /\ cfg.api_max_retries > 1
    /\ attempt = cfg.api_max_retries - 1

====
